---- MODULE Spec2Model ----
(***************************************************************************)
(* Verification model of the weather-bot signal engine: the gap analysis   *)
(* (analysis.py), the quality gates (alerts.py, bot.py), the paper-trading *)
(* lifecycle (paper_trading.py) and the PnL of the historical scorer       *)
(* (resolve.py).                                                           *)
(*                                                                         *)
(* Conventions.  A Python value that may be None is a sequence of length   *)
(* 0 (None) or 1 (the value).  A dispersion (std_dev) is an integer in     *)
(* units of 1/10000 degree, a multiplier an integer number of percent, so  *)
(* every product the code forms is exact.  A cumulative probability is an  *)
(* integer number of millionths.                                           *)
(***************************************************************************)
EXTENDS Integers, Sequences, FiniteSets, TLC

\* ------------------------------------------------------------------------
\* Python helpers
\* ------------------------------------------------------------------------

None == <<>>

Some(v) == <<v>>

Val(x) == x[1]

Abs(x) == IF x < 0 THEN -x ELSE x

RECURSIVE SeqMax(_)
SeqMax(s) ==
    IF Len(s) = 1 THEN s[1]
    ELSE LET m == SeqMax(Tail(s)) IN IF s[1] >= m THEN s[1] ELSE m

RECURSIVE SeqMin(_)
SeqMin(s) ==
    IF Len(s) = 1 THEN s[1]
    ELSE LET m == SeqMin(Tail(s)) IN IF s[1] <= m THEN s[1] ELSE m

RECURSIVE SeqSum(_)
SeqSum(s) == IF s = <<>> THEN 0 ELSE s[1] + SeqSum(Tail(s))

\* Python's round(n / d) for d > 0: nearest integer, a tie goes to the even one.
PyRound(n, d) ==
    LET q == n \div d
        r == n - q * d
    IN  IF 2 * r < d THEN q
        ELSE IF 2 * r > d THEN q + 1
        ELSE IF q % 2 = 0 THEN q ELSE q + 1

\* [t for t in xs if t is not None]
RECURSIVE NotNone(_)
NotNone(xs) ==
    IF xs = <<>> THEN <<>>
    ELSE IF xs[1] = None THEN NotNone(Tail(xs))
    ELSE <<Val(xs[1])>> \o NotNone(Tail(xs))

\* ------------------------------------------------------------------------
\* analysis.py
\* ------------------------------------------------------------------------

\* f"{date_label}_{series_type.lower()}"
FcKey(date_label, series_type) ==
    CASE date_label = "today"    /\ series_type = "HIGH" -> "today_high"
      [] date_label = "today"    /\ series_type = "LOW"  -> "today_low"
      [] date_label = "tomorrow" /\ series_type = "HIGH" -> "tomorrow_high"
      [] OTHER                                           -> "tomorrow_low"

\* (forecasts.get(source) or {}).get(fc_key)
SourceTemp(forecasts, source, fc_key) ==
    IF forecasts[source] = None THEN None ELSE Val(forecasts[source])[fc_key]

ModelSources == <<"nws", "ecmwf", "gfs", "gem", "icon", "weatherapi">>

ModelTemps(forecasts, fc_key) ==
    [i \in 1..Len(ModelSources) |-> SourceTemp(forecasts, ModelSources[i], fc_key)]

_get_model_data(g, forecasts) ==
    LET fc_key      == FcKey(g.market_date, g.series_type)
        temps       == ModelTemps(forecasts, fc_key)
        nws_temp    == temps[1]
        other_temps == NotNone(Tail(temps))
        all_temps   == NotNone(temps)
    IN  [ nws_temp        |-> nws_temp,
          spread          |-> IF Len(all_temps) >= 2
                              THEN Some(SeqMax(all_temps) - SeqMin(all_temps))
                              ELSE None,
          consensus       |-> IF all_temps # <<>>
                              THEN Some(PyRound(SeqSum(all_temps), Len(all_temps)))
                              ELSE None,
          has_enough_data |-> nws_temp # None /\ Len(other_temps) >= 1 ]

\* norm(loc, scale).cdf(x) in millionths; one row per product of a baseline, a
\* time-decay multiplier and the hourly factor, one column per x - loc in -12 .. 12.
CdfRow(s) ==
    CASE s = 4200 -> <<0, 0, 0, 0, 0, 0, 0, 0, 0, 0, 1, 8634, 500000, 991366, 999999, 1000000, 1000000, 1000000, 1000000, 1000000, 1000000, 1000000, 1000000, 1000000, 1000000>>
      [] s = 5250 -> <<0, 0, 0, 0, 0, 0, 0, 0, 0, 0, 70, 28406, 500000, 971594, 999930, 1000000, 1000000, 1000000, 1000000, 1000000, 1000000, 1000000, 1000000, 1000000, 1000000>>
      [] s = 6000 -> <<0, 0, 0, 0, 0, 0, 0, 0, 0, 0, 429, 47790, 500000, 952210, 999571, 1000000, 1000000, 1000000, 1000000, 1000000, 1000000, 1000000, 1000000, 1000000, 1000000>>
      [] s = 7000 -> <<0, 0, 0, 0, 0, 0, 0, 0, 0, 9, 2137, 76564, 500000, 923436, 997863, 999991, 1000000, 1000000, 1000000, 1000000, 1000000, 1000000, 1000000, 1000000, 1000000>>
      [] s = 7500 -> <<0, 0, 0, 0, 0, 0, 0, 0, 0, 32, 3830, 91211, 500000, 908789, 996170, 999968, 1000000, 1000000, 1000000, 1000000, 1000000, 1000000, 1000000, 1000000, 1000000>>
      [] s = 8400 -> <<0, 0, 0, 0, 0, 0, 0, 0, 1, 178, 8634, 116930, 500000, 883070, 991366, 999822, 999999, 1000000, 1000000, 1000000, 1000000, 1000000, 1000000, 1000000, 1000000>>
      [] s = 8750 -> <<0, 0, 0, 0, 0, 0, 0, 0, 2, 303, 11135, 126549, 500000, 873451, 988865, 999697, 999998, 1000000, 1000000, 1000000, 1000000, 1000000, 1000000, 1000000, 1000000>>
      [] s = 10000 -> <<0, 0, 0, 0, 0, 0, 0, 0, 32, 1350, 22750, 158655, 500000, 841345, 977250, 998650, 999968, 1000000, 1000000, 1000000, 1000000, 1000000, 1000000, 1000000, 1000000>>
      [] s = 10500 -> <<0, 0, 0, 0, 0, 0, 0, 1, 70, 2137, 28406, 170452, 500000, 829548, 971594, 997863, 999930, 999999, 1000000, 1000000, 1000000, 1000000, 1000000, 1000000, 1000000>>
      [] s = 12000 -> <<0, 0, 0, 0, 0, 0, 0, 15, 429, 6210, 47790, 202328, 500000, 797672, 952210, 993790, 999571, 999985, 1000000, 1000000, 1000000, 1000000, 1000000, 1000000, 1000000>>
      [] s = 12500 -> <<0, 0, 0, 0, 0, 0, 1, 32, 687, 8198, 54799, 211855, 500000, 788145, 945201, 991802, 999313, 999968, 999999, 1000000, 1000000, 1000000, 1000000, 1000000, 1000000>>
      [] s = 13125 -> <<0, 0, 0, 0, 0, 0, 2, 70, 1153, 11135, 63778, 223058, 500000, 776942, 936222, 988865, 998847, 999930, 999998, 1000000, 1000000, 1000000, 1000000, 1000000, 1000000>>
      [] s = 14000 -> <<0, 0, 0, 0, 0, 0, 9, 178, 2137, 16062, 76564, 237525, 500000, 762475, 923436, 983938, 997863, 999822, 999991, 1000000, 1000000, 1000000, 1000000, 1000000, 1000000>>
      [] s = 15000 -> <<0, 0, 0, 0, 0, 2, 32, 429, 3830, 22750, 91211, 252493, 500000, 747507, 908789, 977250, 996170, 999571, 999968, 999998, 1000000, 1000000, 1000000, 1000000, 1000000>>
      [] s = 17500 -> <<0, 0, 0, 0, 2, 32, 303, 2137, 11135, 43238, 126549, 283855, 500000, 716145, 873451, 956762, 988865, 997863, 999697, 999968, 999998, 1000000, 1000000, 1000000, 1000000>>
      [] s = 18750 -> <<0, 0, 0, 1, 10, 94, 687, 3830, 16449, 54799, 143061, 296901, 500000, 703099, 856939, 945201, 983551, 996170, 999313, 999906, 999990, 999999, 1000000, 1000000, 1000000>>
      [] s = 20000 -> <<0, 0, 0, 3, 32, 233, 1350, 6210, 22750, 66807, 158655, 308538, 500000, 691462, 841345, 933193, 977250, 993790, 998650, 999767, 999968, 999997, 1000000, 1000000, 1000000>>
      [] s = 21000 -> <<0, 0, 1, 9, 70, 429, 2137, 8634, 28406, 76564, 170452, 316969, 500000, 683031, 829548, 923436, 971594, 991366, 997863, 999571, 999930, 999991, 999999, 1000000, 1000000>>
      [] s = 25000 -> <<1, 5, 32, 159, 687, 2555, 8198, 22750, 54799, 115070, 211855, 344578, 500000, 655422, 788145, 884930, 945201, 977250, 991802, 997445, 999313, 999841, 999968, 999995, 999999>>
      [] s = 28000 -> <<9, 43, 178, 654, 2137, 6210, 16062, 37073, 76564, 141988, 237525, 360492, 500000, 639508, 762475, 858012, 923436, 962927, 983938, 993790, 997863, 999346, 999822, 999957, 999991>>
      [] s = 30000 -> <<32, 123, 429, 1350, 3830, 9815, 22750, 47790, 91211, 158655, 252493, 369441, 500000, 630559, 747507, 841345, 908789, 952210, 977250, 990185, 996170, 998650, 999571, 999877, 999968>>
      [] s = 40000 -> <<1350, 2980, 6210, 12224, 22750, 40059, 66807, 105650, 158655, 226627, 308538, 401294, 500000, 598706, 691462, 773373, 841345, 894350, 933193, 959941, 977250, 987776, 993790, 997020, 998650>>

NormCdf(loc, scale, x) == CdfRow(scale)[(x - loc) + 13]

\* int(p): the probability cut to its integer part.
TruncProb(p) == p \div 10000

\* round(p) of a probability p given in units of 1/10000 percent
RoundProb(p) == PyRound(p, 10000)

\* The engine with probability 0 for an unknown bucket type.
gaussian_probability_unknown_zero(forecast_temp, bucket_type, floor, cap, std_dev) ==
    CASE bucket_type = "FLOOR" -> 1000000 - NormCdf(forecast_temp, std_dev, Val(floor))
      [] bucket_type = "CAP"   -> NormCdf(forecast_temp, std_dev, Val(cap))
      [] bucket_type = "RANGE" -> NormCdf(forecast_temp, std_dev, Val(cap))
                                    - NormCdf(forecast_temp, std_dev, Val(floor))
      [] OTHER                 -> 0

\* Returns the probability in units of 1/10000 percent (cdf millionths = percent/10000).
calculate_gaussian_probability(forecast_temp, bucket_type, floor, cap, std_dev) ==
    CASE bucket_type = "FLOOR" -> 1000000 - NormCdf(forecast_temp, std_dev, Val(floor))
      [] bucket_type = "CAP"   -> NormCdf(forecast_temp, std_dev, Val(cap))
      [] bucket_type = "RANGE" -> NormCdf(forecast_temp, std_dev, Val(cap))
                                    - NormCdf(forecast_temp, std_dev, Val(floor))
      [] OTHER                 -> 500000

\* hourly_data: a sequence of [date, hour, temp_f], the items of the dict keyed
\* by "%Y-%m-%dT%H:%M"; now: [et_date, lst_date, lst_hour].
RECURSIVE FutureTemps(_, _)
FutureTemps(hourly_data, now) ==
    IF hourly_data = <<>> THEN <<>>
    ELSE LET h == hourly_data[1] IN
         IF h.date = now.lst_date /\ h.hour > now.lst_hour
         THEN <<h.temp_f>> \o FutureTemps(Tail(hourly_data), now)
         ELSE FutureTemps(Tail(hourly_data), now)

estimate_remaining_extreme(hourly_data, now, extreme_type) ==
    LET future_temps == FutureTemps(hourly_data, now)
    IN  IF future_temps = <<>> THEN None
        ELSE IF extreme_type = "high" THEN Some(SeqMax(future_temps))
        ELSE Some(SeqMin(future_temps))

\* Step 1: the label of the market's resolution date, None when the market is skipped.
DateLabel(market, now) ==
    IF market.event_date = None THEN None
    ELSE IF Val(market.event_date) = now.et_date THEN Some("today")
    ELSE IF Val(market.event_date) = now.et_date + 1 THEN Some("tomorrow")
    ELSE None

\* Step 2: the running observation consulted for the market (None for tomorrow).
RunningOf(date_label, series_type, nws_forecast) ==
    IF date_label = "today" /\ series_type = "HIGH" THEN nws_forecast.today_running_high
    ELSE IF date_label = "today" /\ series_type = "LOW" THEN nws_forecast.today_running_low
    ELSE None

ObservedRunning(series_type, running) ==
    IF running = None THEN None
    ELSE IF series_type = "HIGH" THEN Some(Val(running).max_observed)
    ELSE Some(Val(running).min_observed)

\* The estimate taken from the probable value of the running observation.
ForecastTempProbable(date_label, series_type, nws_forecast) ==
    LET running == RunningOf(date_label, series_type, nws_forecast)
    IN  IF running # None
        THEN IF series_type = "HIGH" THEN Some(Val(running).probable_max)
             ELSE Some(Val(running).probable_min)
        ELSE nws_forecast[FcKey(date_label, series_type)]

ForecastTemp(date_label, series_type, nws_forecast) ==
    LET running == RunningOf(date_label, series_type, nws_forecast)
    IN  IF running # None THEN ObservedRunning(series_type, running)
        ELSE nws_forecast[FcKey(date_label, series_type)]

\* Step 3 with a spread of exactly 1 counted as tight agreement.
SpreadStdDevTightAtOne(city_forecasts, fc_key) ==
    LET valid_temps == NotNone(ModelTemps(city_forecasts, fc_key))
    IN  IF Len(valid_temps) >= 2
        THEN LET spread == SeqMax(valid_temps) - SeqMin(valid_temps)
             IN  IF spread <= 1 THEN 20000
                 ELSE IF spread > 3 THEN 40000
                 ELSE 25000
        ELSE 25000

\* Step 3: dispersion from the spread of the model forecasts.
SpreadStdDev(city_forecasts, fc_key) ==
    LET valid_temps == NotNone(ModelTemps(city_forecasts, fc_key))
    IN  IF Len(valid_temps) >= 2
        THEN LET spread == SeqMax(valid_temps) - SeqMin(valid_temps)
             IN  IF spread < 1 THEN 20000
                 ELSE IF spread > 3 THEN 40000
                 ELSE 25000
        ELSE 25000

\* Step 3b without the test for a running observation.
TimeDecayMultiplierUnobserved(date_label, series_type, observed_running, lst_hour) ==
    IF date_label = "today" /\ series_type = "HIGH"
    THEN IF lst_hour >= 17 THEN 30
         ELSE IF lst_hour >= 14 THEN 50
         ELSE IF lst_hour >= 10 THEN 75
         ELSE 100
    ELSE IF date_label = "today" /\ series_type = "LOW"
    THEN IF lst_hour >= 18 THEN 100
         ELSE IF lst_hour >= 12 THEN 30
         ELSE IF lst_hour >= 8 THEN 50
         ELSE IF lst_hour >= 4 THEN 75
         ELSE 100
    ELSE 100

\* Step 3b: the multiplier in percent.
TimeDecayMultiplier(date_label, series_type, observed_running, lst_hour) ==
    IF date_label = "today" /\ series_type = "HIGH" /\ observed_running # None
    THEN IF lst_hour >= 17 THEN 30
         ELSE IF lst_hour >= 14 THEN 50
         ELSE IF lst_hour >= 10 THEN 75
         ELSE 100
    ELSE IF date_label = "today" /\ series_type = "LOW" /\ observed_running # None
    THEN IF lst_hour >= 18 THEN 100
         ELSE IF lst_hour >= 12 THEN 30
         ELSE IF lst_hour >= 8 THEN 50
         ELSE IF lst_hour >= 4 THEN 75
         ELSE 100
    ELSE 100

\* Step 3b in the copy of analyze_gaps in bot.py: the LOW branch has no
\* test for lst_hour >= 18.
bot_TimeDecayMultiplier(date_label, series_type, observed_running, lst_hour) ==
    IF date_label = "today" /\ series_type = "HIGH" /\ observed_running # None
    THEN IF lst_hour >= 17 THEN 30
         ELSE IF lst_hour >= 14 THEN 50
         ELSE IF lst_hour >= 10 THEN 75
         ELSE 100
    ELSE IF date_label = "today" /\ series_type = "LOW" /\ observed_running # None
    THEN IF lst_hour >= 12 THEN 30
         ELSE IF lst_hour >= 8 THEN 50
         ELSE IF lst_hour >= 4 THEN 75
         ELSE 100
    ELSE 100

\* Tighten without the floor of 1.0.
TightenNoFloor(std_dev, percent) == (std_dev * percent) \div 100

\* max(std_dev * multiplier, 1.0)
Tighten(std_dev, percent) ==
    LET s == (std_dev * percent) \div 100 IN IF s >= 10000 THEN s ELSE 10000

TimeDecayStdDev(std_dev, date_label, observed_running, multiplier) ==
    IF date_label = "today" /\ observed_running # None
    THEN Tighten(std_dev, multiplier)
    ELSE std_dev

\* Step 3c: the remaining-hours extreme consulted, and whether it corroborates.
HourlyRemainingExtreme(date_label, series_type, observed_running, city_forecasts, now) ==
    IF date_label = "today" /\ city_forecasts.hourly # None
          /\ Val(city_forecasts.hourly) # <<>> /\ observed_running # None
    THEN estimate_remaining_extreme(Val(city_forecasts.hourly), now,
                                    IF series_type = "HIGH" THEN "high" ELSE "low")
    ELSE None

HourlyAdjusted(series_type, observed_running, remaining) ==
    /\ remaining # None
    /\ observed_running # None
    /\ IF series_type = "HIGH"
       THEN Val(remaining) < Val(observed_running)
       ELSE Val(remaining) > Val(observed_running)

\* A floor or cap as an f-string formats it.
BoundStr(x) == IF x = None THEN "None" ELSE ToString(Val(x))

\* The subtitle Kalshi supplies, else a label built from floor and cap (the
\* degree sign is left out of the built label).
_bucket_label(market) ==
    IF market.subtitle # "" THEN market.subtitle
    ELSE IF market.bucket_type = "FLOOR" THEN ">" \o BoundStr(market.floor) \o "F"
    ELSE IF market.bucket_type = "CAP" THEN "<" \o BoundStr(market.cap) \o "F"
    ELSE BoundStr(market.floor) \o "-" \o BoundStr(market.cap) \o "F"

\* was_settled with the thresholds 95 and 5.
WasSettledWide(kalshi_prob) == kalshi_prob > 95 \/ kalshi_prob < 5

\* Step 5
WasSettled(kalshi_prob) == kalshi_prob > 90 \/ kalshi_prob < 10

Confidence(nws_prob) == IF nws_prob >= 65 \/ nws_prob <= 35 THEN "HIGH" ELSE "LOW"

MIN_GAP_TO_SHOW == 0

\* The body of the loop of analyze_gaps for one market: None when the market
\* is skipped, else the Gap Result.  copy names the module whose analyze_gaps
\* runs; the two copies differ in step 3b only.
AnalyzeMarketOf(copy, market, nws_forecast, city_forecasts, now) ==
    LET label == DateLabel(market, now) IN
    IF label = None THEN None
    ELSE
    LET date_label       == Val(label)
        series_type      == market.series_type
        running          == RunningOf(date_label, series_type, nws_forecast)
        observed_running == ObservedRunning(series_type, running)
        forecast_temp    == ForecastTemp(date_label, series_type, nws_forecast)
    IN
    IF forecast_temp = None THEN None
    ELSE
    LET std_dev0   == SpreadStdDev(city_forecasts, FcKey(date_label, series_type))
        multiplier == IF copy = "bot.py"
                      THEN bot_TimeDecayMultiplier(date_label, series_type,
                                                   observed_running, now.lst_hour)
                      ELSE TimeDecayMultiplier(date_label, series_type,
                                               observed_running, now.lst_hour)
        std_dev1   == TimeDecayStdDev(std_dev0, date_label, observed_running, multiplier)
        remaining  == HourlyRemainingExtreme(date_label, series_type, observed_running,
                                             city_forecasts, now)
        adjusted   == HourlyAdjusted(series_type, observed_running, remaining)
        std_dev    == IF adjusted THEN Tighten(std_dev1, 70) ELSE std_dev1
        nws_prob   == RoundProb(calculate_gaussian_probability(
                          Val(forecast_temp), market.bucket_type,
                          market.floor, market.cap, std_dev))
        gap        == nws_prob - market.kalshi_prob
    IN
    IF Abs(gap) < MIN_GAP_TO_SHOW THEN None
    ELSE Some([ ticker                   |-> market.ticker,
                series_type              |-> series_type,
                bucket_type              |-> market.bucket_type,
                bucket_label             |-> _bucket_label(market),
                floor                    |-> market.floor,
                cap                      |-> market.cap,
                market_date              |-> date_label,
                forecast_temp            |-> Val(forecast_temp),
                kalshi_prob              |-> market.kalshi_prob,
                nws_prob                 |-> nws_prob,
                gap                      |-> gap,
                edge                     |-> IF gap > 0 THEN "BUY YES" ELSE "BUY NO",
                confidence               |-> Confidence(nws_prob),
                was_settled              |-> WasSettled(market.kalshi_prob),
                std_dev_used             |-> std_dev,
                time_decay_multiplier    |-> multiplier,
                hourly_remaining_extreme |-> remaining,
                hourly_adjusted          |-> adjusted,
                nws_grid_forecast        |-> nws_forecast[FcKey(date_label, series_type)],
                observed_running         |-> observed_running ])

\* analyze_gaps of analysis.py, one market.
AnalyzeMarket(market, nws_forecast, city_forecasts, now) ==
    AnalyzeMarketOf("analysis.py", market, nws_forecast, city_forecasts, now)

\* analyze_gaps of bot.py, one market.
bot_AnalyzeMarket(market, nws_forecast, city_forecasts, now) ==
    AnalyzeMarketOf("bot.py", market, nws_forecast, city_forecasts, now)

\* results.sort(key=lambda x: abs(x["gap"]), reverse=True): stable, largest first.
RECURSIVE InsertByGap(_, _)
InsertByGap(g, sorted) ==
    IF sorted = <<>> THEN <<g>>
    ELSE IF Abs(sorted[1].gap) >= Abs(g.gap)
         THEN <<sorted[1]>> \o InsertByGap(g, Tail(sorted))
         ELSE <<g>> \o sorted

RECURSIVE SortByGap(_)
SortByGap(results) ==
    IF results = <<>> THEN <<>>
    ELSE InsertByGap(results[Len(results)], SortByGap(SubSeq(results, 1, Len(results) - 1)))

RECURSIVE AnalyzeAll(_, _, _, _)
AnalyzeAll(kalshi_markets, nws_forecast, city_forecasts, now) ==
    IF kalshi_markets = <<>> THEN <<>>
    ELSE AnalyzeMarket(kalshi_markets[1], nws_forecast, city_forecasts, now)
           \o AnalyzeAll(Tail(kalshi_markets), nws_forecast, city_forecasts, now)

analyze_gaps(kalshi_markets, nws_forecast, city_forecasts, now) ==
    SortByGap(AnalyzeAll(kalshi_markets, nws_forecast, city_forecasts, now))

\* ------------------------------------------------------------------------
\* alerts.py, bot.py: the quality gates
\* ------------------------------------------------------------------------

_apply_email_filters(g, md) ==
    IF g.was_settled THEN FALSE
    ELSE IF Abs(g.gap) < 15 THEN FALSE
    ELSE IF md.spread # None /\ Val(md.spread) >= 8 THEN FALSE
    ELSE IF md.consensus # None
    THEN LET c  == Val(md.consensus)
             bt == g.bucket_type
             fl == g.floor
             cp == g.cap
         IN  IF bt = "FLOOR" /\ fl # None /\ c < Val(fl) - 5 THEN FALSE
             ELSE IF bt = "CAP" /\ cp # None /\ c > Val(cp) + 5 THEN FALSE
             ELSE IF bt = "RANGE" /\ fl # None /\ c < Val(fl) - 5 THEN FALSE
             ELSE IF bt = "RANGE" /\ cp # None /\ c > Val(cp) + 5 THEN FALSE
             ELSE TRUE
    ELSE TRUE

\* The paper-trade gate with rule 4 rejecting at the boundary itself.
passes_paper_trade_filters_at_boundary(g, md) ==
    IF g.was_settled THEN FALSE
    ELSE IF Abs(g.gap) < 15 THEN FALSE
    ELSE IF md.spread # None /\ Val(md.spread) >= 8 THEN FALSE
    ELSE IF md.consensus # None
    THEN LET c  == Val(md.consensus)
             bt == g.bucket_type
             fl == g.floor
             cp == g.cap
         IN  IF bt = "FLOOR" /\ fl # None /\ c <= Val(fl) - 5 THEN FALSE
             ELSE IF bt = "CAP" /\ cp # None /\ c >= Val(cp) + 5 THEN FALSE
             ELSE IF bt = "RANGE" /\ fl # None /\ c <= Val(fl) - 5 THEN FALSE
             ELSE IF bt = "RANGE" /\ cp # None /\ c >= Val(cp) + 5 THEN FALSE
             ELSE TRUE
    ELSE TRUE

\* The paper-trade gate with the spread limit at 10 instead of 8.
passes_paper_trade_filters_spread_ten(g, md) ==
    IF g.was_settled THEN FALSE
    ELSE IF Abs(g.gap) < 15 THEN FALSE
    ELSE IF md.spread # None /\ Val(md.spread) >= 10 THEN FALSE
    ELSE IF md.consensus # None
    THEN LET c  == Val(md.consensus)
             bt == g.bucket_type
             fl == g.floor
             cp == g.cap
         IN  IF bt = "FLOOR" /\ fl # None /\ c < Val(fl) - 5 THEN FALSE
             ELSE IF bt = "CAP" /\ cp # None /\ c > Val(cp) + 5 THEN FALSE
             ELSE IF bt = "RANGE" /\ fl # None /\ c < Val(fl) - 5 THEN FALSE
             ELSE IF bt = "RANGE" /\ cp # None /\ c > Val(cp) + 5 THEN FALSE
             ELSE TRUE
    ELSE TRUE

_passes_paper_trade_filters(g, md) ==
    IF g.was_settled THEN FALSE
    ELSE IF Abs(g.gap) < 15 THEN FALSE
    ELSE IF md.spread # None /\ Val(md.spread) >= 8 THEN FALSE
    ELSE IF md.consensus # None
    THEN LET c  == Val(md.consensus)
             bt == g.bucket_type
             fl == g.floor
             cp == g.cap
         IN  IF bt = "FLOOR" /\ fl # None /\ c < Val(fl) - 5 THEN FALSE
             ELSE IF bt = "CAP" /\ cp # None /\ c > Val(cp) + 5 THEN FALSE
             ELSE IF bt = "RANGE" /\ fl # None /\ c < Val(fl) - 5 THEN FALSE
             ELSE IF bt = "RANGE" /\ cp # None /\ c > Val(cp) + 5 THEN FALSE
             ELSE TRUE
    ELSE TRUE

\* The copy of _apply_email_filters in bot.py.
bot_apply_email_filters(g, md) ==
    IF g.was_settled THEN FALSE
    ELSE IF Abs(g.gap) < 15 THEN FALSE
    ELSE IF md.spread # None /\ Val(md.spread) >= 4 THEN FALSE
    ELSE IF md.consensus # None
    THEN LET c  == Val(md.consensus)
             bt == g.bucket_type
             fl == g.floor
             cp == g.cap
         IN  IF bt = "FLOOR" /\ fl # None /\ c < Val(fl) - 5 THEN FALSE
             ELSE IF bt = "CAP" /\ cp # None /\ c > Val(cp) + 5 THEN FALSE
             ELSE IF bt = "RANGE" /\ fl # None /\ c < Val(fl) - 5 THEN FALSE
             ELSE IF bt = "RANGE" /\ cp # None /\ c > Val(cp) + 5 THEN FALSE
             ELSE TRUE
    ELSE TRUE

\* ------------------------------------------------------------------------
\* paper_trading.py, resolve.py: profit and loss
\* ------------------------------------------------------------------------

\* What one call of the Kalshi single-market endpoint can produce: the result
\* field of the market ("" while unsettled), or "error" for a network error
\* or a malformed response.
ApiOutcomes == {"yes", "no", "", "voided", "error"}

\* The outcomes explored in the lifecycle.
LifeOutcomes == {"yes", "", "voided", "error"}

\* The PnL with the BUY NO branch paying as BUY YES does.
PaperPnlOneSided(direction, entry_price, result) ==
    IF result = "yes" THEN 100 - entry_price ELSE -entry_price

\* paper_trading.py: PnL in cents of a position whose market resolved.
PaperPnl(direction, entry_price, result) ==
    IF direction = "BUY YES"
    THEN IF result = "yes" THEN 100 - entry_price ELSE -entry_price
    ELSE IF result = "no" THEN entry_price ELSE -(100 - entry_price)

\* resolve.py: "yes", "no", or None when the market has not settled or the call failed.
fetch_market_result(outcome) ==
    IF outcome = "error" THEN None
    ELSE IF outcome \in {"yes", "no"} THEN Some(outcome)
    ELSE None

\* resolve.py, run_resolution_check: PnL of a scored signal.
ScorerPnl(direction, entry_price, result) ==
    IF result \in {"void", "voided"} THEN 0
    ELSE IF direction = "BUY YES"
    THEN IF result = "yes" THEN 100 - entry_price ELSE -entry_price
    ELSE IF result = "no" THEN entry_price ELSE -(100 - entry_price)

\* resolve.py, run_resolution_check: correctness and PnL of one signal row, None
\* when the market is skipped as not yet settled.
ScoreSignal(row, outcome) ==
    LET fetched == fetch_market_result(outcome) IN
    IF fetched = None THEN None
    ELSE LET result == Val(fetched) IN
         Some([ direction        |-> row.direction,
                kalshi_price     |-> row.kalshi_price,
                result           |-> result,
                resolved_correct |-> \/ row.direction = "BUY YES" /\ result = "yes"
                                     \/ row.direction = "BUY NO"  /\ result = "no",
                pnl_cents        |-> ScorerPnl(row.direction, row.kalshi_price, result) ])

\* ------------------------------------------------------------------------
\* observations.py: the running high and low
\* ------------------------------------------------------------------------

\* A temperature is carried in units of 1/90 degree Celsius, so that a reading
\* in tenths of a degree Celsius (value) and one in whole degrees Fahrenheit,
\* converted by (raw_value - 32) * 5 / 9, are both exact.
Celsius(temp_obj) ==
    IF temp_obj.unitCode = "wmoUnit:degF" THEN 50 * (temp_obj.value - 32)
    ELSE 9 * temp_obj.value

\* math.floor((celsius + shift / 1000) * 9 / 5 + 32)
FloorF(celsius, shift) == (10 * celsius + (9 * shift) \div 10 + 16000) \div 500

\* round(celsius * 9 / 5 + 32)
RoundF(celsius) == PyRound(celsius + 1600, 50)

\* The conservative value of one reading.
Conservative(station_type, celsius) ==
    IF station_type = "5-minute" THEN FloorF(celsius, 0) ELSE RoundF(celsius)

\* upper_bound (shift 50) or lower_bound (shift -50) of one reading.
Bound(station_type, celsius, shift) ==
    IF station_type = "5-minute" THEN FloorF(celsius, shift) ELSE RoundF(celsius)

\* dsm_f of a reading's maxTemperatureLast24Hours, in tenths of a degree Celsius.
DsmF(dsm_c) == FloorF(9 * dsm_c, 0)

Larger(acc, v) == IF acc = None \/ v > Val(acc) THEN Some(v) ELSE acc

Smaller(acc, v) == IF acc = None \/ v < Val(acc) THEN Some(v) ELSE acc

\* The loop of get_current_running_high over the features, from the state st.
RECURSIVE HighLoop(_, _, _)
HighLoop(station_type, features, st) ==
    IF features = <<>> THEN st
    ELSE LET props == features[1]
             dsm   == IF props.maxTemperatureLast24Hours = None THEN st.dsm_high
                      ELSE Larger(st.dsm_high, DsmF(Val(props.maxTemperatureLast24Hours)))
             st1   == IF props.temperature = None
                      THEN [st EXCEPT !.dsm_high = dsm]
                      ELSE LET celsius == Celsius(Val(props.temperature)) IN
                           [ max_observed |-> Larger(st.max_observed,
                                                     Conservative(station_type, celsius)),
                             probable_max |-> Larger(st.probable_max,
                                                     Bound(station_type, celsius, 50)),
                             dsm_high     |-> dsm,
                             valid_count  |-> st.valid_count + 1 ]
         IN  HighLoop(station_type, Tail(features), st1)

\* get_current_running_high with the rolling-24-hour maximum raising only
\* max_observed.
running_high_dsm_on_max_only(station_type, response) ==
    IF response = None THEN None
    ELSE IF Val(response) = <<>> THEN None
    ELSE LET st  == HighLoop(station_type, Val(response),
                             [max_observed |-> None, probable_max |-> None,
                              dsm_high |-> None, valid_count |-> 0])
             max == IF st.dsm_high = None THEN st.max_observed
                    ELSE Larger(st.max_observed, Val(st.dsm_high))
         IN  IF max = None \/ st.probable_max = None THEN None
             ELSE Some([ max_observed |-> Val(max),
                         probable_max |-> Val(st.probable_max),
                         obs_count    |-> st.valid_count ])

\* response: None when the request fails, else the features of the feed.
get_current_running_high(station_type, response) ==
    IF response = None THEN None
    ELSE IF Val(response) = <<>> THEN None
    ELSE LET st  == HighLoop(station_type, Val(response),
                             [max_observed |-> None, probable_max |-> None,
                              dsm_high |-> None, valid_count |-> 0])
             max == IF st.dsm_high = None THEN st.max_observed
                    ELSE Larger(st.max_observed, Val(st.dsm_high))
             prb == IF st.dsm_high = None THEN st.probable_max
                    ELSE Larger(st.probable_max, Val(st.dsm_high))
         IN  IF max = None THEN None
             ELSE Some([ max_observed |-> Val(max),
                         probable_max |-> Val(prb),
                         obs_count    |-> st.valid_count ])

\* The loop of get_current_running_low over the features, from the state st.
RECURSIVE LowLoop(_, _, _)
LowLoop(station_type, features, st) ==
    IF features = <<>> THEN st
    ELSE LET props == features[1]
             st1   == IF props.temperature = None THEN st
                      ELSE LET celsius == Celsius(Val(props.temperature)) IN
                           [ min_observed |-> Smaller(st.min_observed,
                                                      Conservative(station_type, celsius)),
                             probable_min |-> Smaller(st.probable_min,
                                                      Bound(station_type, celsius, -50)),
                             valid_count  |-> st.valid_count + 1 ]
         IN  LowLoop(station_type, Tail(features), st1)

get_current_running_low(station_type, response) ==
    IF response = None THEN None
    ELSE IF Val(response) = <<>> THEN None
    ELSE LET st == LowLoop(station_type, Val(response),
                           [min_observed |-> None, probable_min |-> None, valid_count |-> 0])
         IN  IF st.min_observed = None THEN None
             ELSE Some([ min_observed |-> Val(st.min_observed),
                         probable_min |-> Val(st.probable_min),
                         obs_count    |-> st.valid_count ])

\* ------------------------------------------------------------------------
\* resolve.py: the signals of yesterday
\* ------------------------------------------------------------------------

\* datetime.strptime(ticker.split("-")[1], "%y%b%d").date() as a day number,
\* None when the ticker has no second segment or the segment is no date.  The
\* tickers carry the day number in the place of the date ("D1" is day 1).
ResolveDate(ticker) ==
    CASE ticker \in {"KXHIGHNY-D0-B50", "KXHIGHNY-D0-T51", "KXHIGHCHI-D0-B50", "KXHIGHXX-D0-B50"}
           -> Some(0)
      [] ticker \in {"KXHIGHNY-D1-B50", "KXHIGHNY-D1-T51", "KXHIGHCHI-D1-B50"} -> Some(1)
      [] ticker \in {"KXHIGHNY-D2-B50"} -> Some(2)
      [] OTHER -> None

\* str.lower() on the values the was_settled column holds.
Lower(str) ==
    CASE str = "True"  -> "true"
      [] str = "TRUE"  -> "true"
      [] str = "False" -> "false"
      [] str = "FALSE" -> "false"
      [] OTHER         -> str

\* Whether the loop of load_yesterday_signals keeps the row.
KeepsRow(row, yesterday_et) ==
    /\ row.ticker # ""
    /\ ResolveDate(row.ticker) # None
    /\ Val(ResolveDate(row.ticker)) = yesterday_et
    /\ Lower(row.was_settled) # "true"
    /\ row.confidence = "HIGH"

\* d.setdefault(key, value): a key that is present keeps its first value.
SetDefault(d, key, value) ==
    IF \E k \in 1..Len(d) : d[k].ticker = key THEN d
    ELSE Append(d, [ticker |-> key, row |-> value])

\* d[key] = value on a dict held as the sequence of its items: a key that is
\* present keeps its place.
SetItem(d, key, value) ==
    IF \E k \in 1..Len(d) : d[k].ticker = key
    THEN [ k \in 1..Len(d) |-> IF d[k].ticker = key THEN [ticker |-> key, row |-> value]
                                                    ELSE d[k] ]
    ELSE Append(d, [ticker |-> key, row |-> value])

\* The loop over the rows of log.csv.
RECURSIVE LoadLoop(_, _, _)
LoadLoop(rows, yesterday_et, by_ticker) ==
    IF rows = <<>> THEN by_ticker
    ELSE LoadLoop(Tail(rows), yesterday_et,
                  IF KeepsRow(rows[1], yesterday_et)
                  THEN SetItem(by_ticker, rows[1].ticker, rows[1])
                  ELSE by_ticker)

\* log_file: None when LOG_FILE does not exist, else its rows; et_date: the
\* date of datetime.now() in America/New_York.
load_yesterday_signals(log_file, et_date) ==
    [ by_ticker     |-> IF log_file = None THEN <<>>
                        ELSE LoadLoop(Val(log_file), et_date - 1, <<>>),
      yesterday_str |-> et_date - 1 ]

\* ------------------------------------------------------------------------
\* resolve.py: the daily resolution check
\* ------------------------------------------------------------------------

\* temp_f of fetch_actual_temperature for a value in tenths of a degree Celsius.
ActualF(station_type, value) ==
    IF station_type = "5-minute" THEN FloorF(9 * value, 0) ELSE RoundF(9 * value)

\* The number fetch_actual_temperature reads as degrees Celsius, in tenths:
\* the value of the temperature object, whatever its unitCode.
RawTenths(temp_obj) ==
    IF temp_obj.unitCode = "wmoUnit:degF" THEN 10 * temp_obj.value ELSE temp_obj.value

\* The loop of fetch_actual_temperature over the features.
RECURSIVE ActualLoop(_, _, _)
ActualLoop(station_type, features, st) ==
    IF features = <<>> THEN st
    ELSE LET props == features[1]
             st1   == IF props.temperature = None THEN st
                      ELSE LET temp_f == ActualF(station_type, RawTenths(Val(props.temperature))) IN
                           [ actual_high |-> Larger(st.actual_high, temp_f),
                             actual_low  |-> Smaller(st.actual_low, temp_f) ]
             st2   == IF props.maxTemperatureLast24Hours = None THEN st1
                      ELSE [st1 EXCEPT !.actual_high =
                              Larger(@, ActualF(station_type,
                                                Val(props.maxTemperatureLast24Hours)))]
         IN  ActualLoop(station_type, Tail(features), st2)

\* response: None when the request fails, else the features of the day.
fetch_actual_temperature(station_type, response) ==
    IF response = None THEN None
    ELSE IF Val(response) = <<>> THEN None
    ELSE LET st == ActualLoop(station_type, Val(response),
                              [actual_high |-> None, actual_low |-> None])
         IN  IF st.actual_high = None /\ st.actual_low = None THEN None ELSE Some(st)

\* forecast_temp_used of the last row of the log with the ticker and a value.
RECURSIVE _get_forecast_for_ticker(_, _)
_get_forecast_for_ticker(ticker, log_file) ==
    IF log_file = None \/ log_file = Some(<<>>) THEN None
    ELSE LET rows == Val(log_file)
             last == rows[Len(rows)]
         IN  IF last.ticker = ticker /\ last.forecast_temp_used # None
             THEN last.forecast_temp_used
             ELSE _get_forecast_for_ticker(ticker, Some(SubSeq(rows, 1, Len(rows) - 1)))

\* name_to_key.get(city)
NameToKey(city) ==
    CASE city = "New York City" -> Some("NYC")
      [] city = "Chicago"       -> Some("CHI")
      [] OTHER                  -> None

\* CITIES[city_key]["station_type"]
StationType(city_key) == IF city_key = "NYC" THEN "hourly" ELSE "5-minute"

\* The cache test that sends a city whose fetch failed to NWS again.
CachedWithValue(actuals_cache, city_key) ==
    \E k \in 1..Len(actuals_cache) :
        actuals_cache[k].city_key = city_key /\ actuals_cache[k].actuals # None

\* city_key in actuals_cache
Cached(actuals_cache, city_key) ==
    \E k \in 1..Len(actuals_cache) : actuals_cache[k].city_key = city_key

\* actuals_cache[city_key]
CachedActuals(actuals_cache, city_key) ==
    actuals_cache[CHOOSE k \in 1..Len(actuals_cache) :
                    actuals_cache[k].city_key = city_key].actuals

\* The body of the loop of run_resolution_check for one signal.  st holds the
\* cache, the cities whose actuals were requested (in order) and the rows.
ScoreOne(st, ticker, row, yesterday_str, log_file, api, nws) ==
    LET scored == ScoreSignal(row, api[ticker]) IN
    IF scored = None THEN st
    ELSE
    LET city_key == NameToKey(row.city)
        fetch    == city_key # None /\ ~Cached(st.actuals_cache, Val(city_key))
        cache    == IF fetch
                    THEN Append(st.actuals_cache,
                                [ city_key |-> Val(city_key),
                                  actuals  |-> fetch_actual_temperature(
                                                   StationType(Val(city_key)),
                                                   nws[Val(city_key)]) ])
                    ELSE st.actuals_cache
        actuals  == IF city_key = None THEN None ELSE CachedActuals(cache, Val(city_key))
        actual_temp == IF actuals = None THEN None
                       ELSE IF row.market_type = "HIGH" THEN Val(actuals).actual_high
                       ELSE Val(actuals).actual_low
        forecast_temp == IF actuals = None THEN None
                         ELSE _get_forecast_for_ticker(ticker, log_file)
    IN  [ actuals_cache |-> cache,
          fetches       |-> IF fetch THEN Append(st.fetches, Val(city_key)) ELSE st.fetches,
          resolved_rows |-> Append(st.resolved_rows,
              [ date             |-> yesterday_str,
                city             |-> row.city,
                market_type      |-> row.market_type,
                bucket_label     |-> row.bucket_label,
                ticker           |-> ticker,
                direction        |-> Val(scored).direction,
                kalshi_price     |-> row.kalshi_price,
                nws_implied      |-> row.nws_implied,
                gap              |-> row.gap,
                result           |-> Val(scored).result,
                resolved_correct |-> Val(scored).resolved_correct,
                pnl_cents        |-> Val(scored).pnl_cents,
                actual_temp      |-> actual_temp,
                forecast_error   |-> IF forecast_temp # None /\ actual_temp # None
                                     THEN Some(Val(forecast_temp) - Val(actual_temp))
                                     ELSE None ]) ]

RECURSIVE ScoreLoop(_, _, _, _, _, _)
ScoreLoop(st, signals, yesterday_str, log_file, api, nws) ==
    IF signals = <<>> THEN st
    ELSE ScoreLoop(ScoreOne(st, signals[1].ticker, signals[1].row, yesterday_str,
                            log_file, api, nws),
                   Tail(signals), yesterday_str, log_file, api, nws)

\* One run on ET date et_date: the new _RAN_FOR_DATE, the rows handed to
\* write_resolve_log, the value returned, the cities requested from NWS and
\* the snapshots load_yesterday_signals selected.
run_resolution_check(log_file, et_date, api, nws) ==
    LET loaded == load_yesterday_signals(log_file, et_date)
        st     == ScoreLoop([actuals_cache |-> <<>>, fetches |-> <<>>, resolved_rows |-> <<>>],
                            loaded.by_ticker, loaded.yesterday_str, log_file, api, nws)
    IN  [ ran_for_date  |-> Some(et_date),
          resolved_rows |-> st.resolved_rows,
          returned      |-> Len(st.resolved_rows),
          fetches       |-> st.fetches,
          signals       |-> loaded.by_ticker ]

\* run_resolution: the public entry point.
run_resolution(log_file, et_date, api, nws) == run_resolution_check(log_file, et_date, api, nws)

\* ------------------------------------------------------------------------
\* bot.py: the per-day spread tracking of run_cycle and the scheduler
\* ------------------------------------------------------------------------

\* The body of the spread-tracking loop for one Gap Result; st holds the two
\* ticker sets and the markets found converged.
TrackOne(st, city_key, g, all_forecasts) ==
    LET md == _get_model_data(g, all_forecasts[city_key]) IN
    IF ~md.has_enough_data \/ md.spread = None THEN st
    ELSE IF Val(md.spread) >= 3
         THEN [st EXCEPT !.flagged = @ \cup {g.ticker}]
    ELSE IF Val(md.spread) < 1 /\ g.ticker \in st.flagged /\ g.ticker \notin st.alerted
         THEN [st EXCEPT !.converged = Append(@, g.ticker), !.alerted = @ \cup {g.ticker}]
    ELSE st

RECURSIVE TrackCity(_, _, _, _)
TrackCity(st, city_key, gaps, all_forecasts) ==
    IF gaps = <<>> THEN st
    ELSE TrackCity(TrackOne(st, city_key, gaps[1], all_forecasts),
                   city_key, Tail(gaps), all_forecasts)

\* run_cycle from "Spread tracking" on: the two sets after the cycle and the
\* markets found converged, for the results the cycle collected.
RECURSIVE SpreadTracking(_, _, _)
SpreadTracking(st, all_results, all_forecasts) ==
    IF all_results = <<>> THEN st
    ELSE SpreadTracking(TrackCity(st, all_results[1][1], all_results[1][2], all_forecasts),
                        Tail(all_results), all_forecasts)

\* The email decision of run_cycle.  window says where et_min falls: in
\* 420..434 ("morning"), in 1200..1214 ("evening") or elsewhere ("none").
\* The e-mail chosen is delivered.
EmailDecision(window, morning_sent, evening_sent, et_date, converged_markets) ==
    IF window = "morning" /\ morning_sent # Some(et_date)
    THEN [ email |-> "morning", named |-> {},
           morning_sent |-> Some(et_date), evening_sent |-> evening_sent ]
    ELSE IF window = "evening" /\ evening_sent # Some(et_date)
    THEN [ email |-> "evening", named |-> {},
           morning_sent |-> morning_sent, evening_sent |-> Some(et_date) ]
    ELSE IF converged_markets # <<>>
    THEN [ email |-> "convergence",
           named |-> { converged_markets[k] : k \in 1..Len(converged_markets) },
           morning_sent |-> morning_sent, evening_sent |-> evening_sent ]
    ELSE [ email |-> "none", named |-> {},
           morning_sent |-> morning_sent, evening_sent |-> evening_sent ]

\* ------------------------------------------------------------------------
\* State
\* ------------------------------------------------------------------------

VARIABLES
    PAPER_POSITIONS,   \* _PAPER_POSITIONS: the open positions, in insertion order
    paper_trade_log,   \* the rows of PAPER_TRADE_LOG
    entry_log,         \* the "PAPER TRADE" lines logged, as [ticker, day, label]
    resolved_log,      \* the "PAPER RESOLVED" lines logged, as [ticker, result, pnl]
    last_call,         \* what the last handler invocation was given and met
    today,             \* the calendar date of datetime.now()
    analysis_in,       \* inputs of one analysis of one market
    analysis_out,      \* its Gap Result, model data and gate decisions
    pnl_in,            \* inputs of one PnL computation
    pnl_out,           \* its results on the live path and in the scorer
    obs_in,            \* station type and feed of one run of the two trackers
    obs_out,           \* the running high and low they return, and the scorer's actuals
    batch_in,          \* the markets and forecast of one call of analyze_gaps
    batch_out,         \* the list it returns
    prob_in,           \* estimate, boundary and dispersion of one probability pair
    prob_out,          \* the ABOVE_FLOOR and BELOW_CAP probabilities, raw and rounded
    sig_in,            \* log.csv and the ET date of one call of load_yesterday_signals
    sig_out,           \* what it returns
    HIGH_SPREAD_FLAGGED,  \* _HIGH_SPREAD_FLAGGED of bot.py
    SPREAD_ALERTED,       \* _SPREAD_ALERTED of bot.py
    bot_now,           \* the wall clock of the bot process, in ticks
    jobs,              \* next_run of the scheduled jobs, None before they are scheduled
    bot_last,          \* what the last job run was and met
    MORNING_SENT_DATE, \* _MORNING_SENT_DATE of bot.py
    EVENING_SENT_DATE, \* _EVENING_SENT_DATE of bot.py
    bot_alerts,        \* tickers named in a convergence alert sent since the last reset
    RAN_FOR_DATE,      \* _RAN_FOR_DATE of resolve.py
    resolve_log,       \* the rows of RESOLVE_LOG
    res_date,          \* the ET date of the resolver's clock
    res_runs,          \* how many resolution checks have run
    res_last           \* what the last entry point called did

vars == << PAPER_POSITIONS, paper_trade_log, entry_log, resolved_log, last_call, today,
           analysis_in, analysis_out, pnl_in, pnl_out, obs_in, obs_out,
           batch_in, batch_out, prob_in, prob_out,
           sig_in, sig_out, HIGH_SPREAD_FLAGGED, SPREAD_ALERTED, bot_now, jobs, bot_last,
           MORNING_SENT_DATE, EVENING_SENT_DATE, bot_alerts,
           RAN_FOR_DATE, resolve_log, res_date, res_runs, res_last >>

lifecycle_vars == << PAPER_POSITIONS, paper_trade_log, entry_log, resolved_log, last_call, today >>

\* The variables of the other components, and their values while those
\* components are not running.
obs_vars == << obs_in, obs_out >>

batch_vars == << batch_in, batch_out >>

prob_vars == << prob_in, prob_out >>

sig_vars == << sig_in, sig_out >>

bot_vars == << HIGH_SPREAD_FLAGGED, SPREAD_ALERTED, bot_now, jobs, bot_last,
              MORNING_SENT_DATE, EVENING_SENT_DATE, bot_alerts >>

res_vars == << RAN_FOR_DATE, resolve_log, res_date, res_runs, res_last >>

ext_vars == << obs_vars, batch_vars, prob_vars, sig_vars, bot_vars, res_vars >>

ObsIdle == obs_in = None /\ obs_out = None

BatchIdle == batch_in = None /\ batch_out = None

ProbIdle == prob_in = None /\ prob_out = None

SigIdle == sig_in = None /\ sig_out = None

BotIdle ==
    /\ HIGH_SPREAD_FLAGGED = {}
    /\ SPREAD_ALERTED = {}
    /\ bot_now = 0
    /\ jobs = None
    /\ bot_last = [op |-> "none"]
    /\ MORNING_SENT_DATE = None
    /\ EVENING_SENT_DATE = None
    /\ bot_alerts = {}

ResIdle ==
    /\ RAN_FOR_DATE = None
    /\ resolve_log = <<>>
    /\ res_date = 1
    /\ res_runs = 0
    /\ res_last = [op |-> "none"]

ExtInit == ObsIdle /\ BatchIdle /\ ProbIdle /\ SigIdle /\ BotIdle /\ ResIdle

\* The paper-trading, analysis and PnL variables while those are not running.
core_vars == << lifecycle_vars, analysis_in, analysis_out, pnl_in, pnl_out >>

CoreInit ==
    /\ PAPER_POSITIONS = <<>>
    /\ paper_trade_log = <<>>
    /\ entry_log = <<>>
    /\ resolved_log = <<>>
    /\ last_call = [op |-> "none"]
    /\ today = 0
    /\ analysis_in = None
    /\ analysis_out = None
    /\ pnl_in = None
    /\ pnl_out = None

\* Every component but c is idle.
IdleExcept(c) ==
    /\ c = "obs"   \/ ObsIdle
    /\ c = "batch" \/ BatchIdle
    /\ c = "prob"  \/ ProbIdle
    /\ c = "sig"   \/ SigIdle
    /\ c = "bot"   \/ BotIdle
    /\ c = "res"   \/ ResIdle
    /\ CoreInit

\* A step of component c leaves every other component alone.
FrameExcept(c) ==
    /\ c = "obs"   \/ UNCHANGED obs_vars
    /\ c = "batch" \/ UNCHANGED batch_vars
    /\ c = "prob"  \/ UNCHANGED prob_vars
    /\ c = "sig"   \/ UNCHANGED sig_vars
    /\ c = "bot"   \/ UNCHANGED bot_vars
    /\ c = "res"   \/ UNCHANGED res_vars
    /\ UNCHANGED core_vars

\* ------------------------------------------------------------------------
\* paper_trading.py: the lifecycle
\* ------------------------------------------------------------------------

\* The last calendar day explored.
MaxDay == 1

\* Most positions that resolve in an explored run.
MaxResolved == 1

\* Most positions opened by a process whose every position is followed to
\* its resolution.
MaxEntries == 2

\* The tickers of the lifecycle's markets.
LifeTickers == {"T1", "T2"}

\* CITIES[city_key]["name"]
CityName(city_key) == IF city_key = "NYC" THEN "New York City" ELSE city_key

RECURSIVE Keys(_)
Keys(positions) ==
    IF positions = <<>> THEN {} ELSE {positions[1].ticker} \cup Keys(Tail(positions))

\* _PAPER_POSITIONS[ticker]
Position(positions, ticker) ==
    positions[CHOOSE i \in 1..Len(positions) : positions[i].ticker = ticker]

\* The entry recorded for an admitted Gap Result.
NewPosition(city_key, g, md, t) ==
    [ entry_time               |-> t,
      city                     |-> CityName(city_key),
      market_type              |-> g.series_type,
      bucket_label             |-> g.bucket_label,
      ticker                   |-> g.ticker,
      direction                |-> g.edge,
      entry_price              |-> g.kalshi_prob,
      gap_at_entry             |-> g.gap,
      spread_at_entry          |-> md.spread,
      std_dev_at_entry         |-> g.std_dev_used,
      time_decay_at_entry      |-> g.time_decay_multiplier,
      nws_prob_at_entry        |-> g.nws_prob,
      forecast_temp_at_entry   |-> g.forecast_temp,
      consensus_at_entry       |-> md.consensus,
      hourly_adjusted_at_entry |-> g.hourly_adjusted ]

\* A midnight reset that empties the table.
reset_paper_trading_clears(positions) == <<>>

\* reset_paper_trading: logs the open positions and leaves the table alone.
reset_paper_trading(positions) == positions

\* The body of the inner loop without the test for an open position: the
\* entry of an open ticker is overwritten in place.
EnterOneAgain(positions, city_key, g, all_forecasts, t) ==
    LET md == _get_model_data(g, all_forecasts[city_key]) IN
    IF ~md.has_enough_data THEN positions
    ELSE IF ~_passes_paper_trade_filters(g, md) THEN positions
    ELSE IF g.ticker \in Keys(positions)
    THEN [ i \in 1..Len(positions) |->
             IF positions[i].ticker = g.ticker
             THEN NewPosition(city_key, g, md, t) ELSE positions[i] ]
    ELSE Append(positions, NewPosition(city_key, g, md, t))

\* The body of the inner loop of check_paper_entries for one Gap Result.
EnterOne(positions, city_key, g, all_forecasts, t) ==
    IF g.ticker \in Keys(positions) THEN positions
    ELSE LET md == _get_model_data(g, all_forecasts[city_key]) IN
         IF ~md.has_enough_data THEN positions
         ELSE IF ~_passes_paper_trade_filters(g, md) THEN positions
         ELSE Append(positions, NewPosition(city_key, g, md, t))

RECURSIVE EnterCity(_, _, _, _, _)
EnterCity(positions, city_key, gaps, all_forecasts, t) ==
    IF gaps = <<>> THEN positions
    ELSE EnterCity(EnterOne(positions, city_key, gaps[1], all_forecasts, t),
                   city_key, Tail(gaps), all_forecasts, t)

\* all_results: the items of the dict, a sequence of <<city_key, gaps>>.
RECURSIVE check_paper_entries(_, _, _, _)
check_paper_entries(positions, all_results, all_forecasts, t) ==
    IF all_results = <<>> THEN positions
    ELSE check_paper_entries(
             EnterCity(positions, all_results[1][1], all_results[1][2], all_forecasts, t),
             Tail(all_results), all_forecasts, t)

\* The row resolve_paper_trades writes for a resolved position.
TradeRow(pos, result, pnl, t) ==
    [ entry_time               |-> pos.entry_time,
      exit_time                |-> t,
      city                     |-> pos.city,
      market_type              |-> pos.market_type,
      bucket_label             |-> pos.bucket_label,
      ticker                   |-> pos.ticker,
      direction                |-> pos.direction,
      entry_price              |-> pos.entry_price,
      exit_result              |-> result,
      pnl_cents                |-> pnl,
      gap_at_entry             |-> pos.gap_at_entry,
      spread_at_entry          |-> pos.spread_at_entry,
      std_dev_at_entry         |-> pos.std_dev_at_entry,
      time_decay_at_entry      |-> pos.time_decay_at_entry,
      nws_prob_at_entry        |-> pos.nws_prob_at_entry,
      forecast_temp_at_entry   |-> pos.forecast_temp_at_entry,
      consensus_at_entry       |-> pos.consensus_at_entry,
      hourly_adjusted_at_entry |-> pos.hourly_adjusted_at_entry ]

\* The body of the loop of resolve_paper_trades for one open position: the
\* status call's outcome, whether the position is marked resolved, the row
\* written (None when none is) and the PnL logged.
PollOne(pos, outcome, csv_ok, t) ==
    IF outcome = "error" \/ outcome \notin {"yes", "no"}
    THEN [ ticker |-> pos.ticker, outcome |-> outcome, resolved |-> FALSE,
           csv |-> "none", row |-> None, pnl |-> None ]
    ELSE LET pnl == PaperPnl(pos.direction, pos.entry_price, outcome) IN
         [ ticker |-> pos.ticker, outcome |-> outcome, resolved |-> TRUE,
           csv |-> IF csv_ok THEN "written" ELSE "failed",
           row |-> IF csv_ok THEN Some(TradeRow(pos, outcome, pnl, t)) ELSE None,
           pnl |-> Some(pnl) ]

\* The loop when a failed status call ends it: the positions after the first
\* failure are not polled.
RECURSIVE PollUntilError(_, _, _, _)
PollUntilError(positions, outcomes, csv_oks, t) ==
    IF positions = <<>> THEN <<>>
    ELSE LET poll == PollOne(positions[1], outcomes[positions[1].ticker],
                             csv_oks[positions[1].ticker], t)
         IN  IF poll.outcome = "error" THEN <<poll>>
             ELSE <<poll>> \o PollUntilError(Tail(positions), outcomes, csv_oks, t)

\* The loop over list(_PAPER_POSITIONS.items()).
PollAll(positions, outcomes, csv_oks, t) ==
    [ i \in 1..Len(positions) |->
        PollOne(positions[i], outcomes[positions[i].ticker], csv_oks[positions[i].ticker], t) ]

RECURSIVE RowsWritten(_)
RowsWritten(polls) ==
    IF polls = <<>> THEN <<>> ELSE polls[1].row \o RowsWritten(Tail(polls))

RECURSIVE ResolvedLines(_)
ResolvedLines(polls) ==
    IF polls = <<>> THEN <<>>
    ELSE (IF polls[1].resolved
          THEN << [ticker |-> polls[1].ticker, result |-> polls[1].outcome,
                   pnl |-> Val(polls[1].pnl)] >>
          ELSE <<>>) \o ResolvedLines(Tail(polls))

ResolvedTickers(polls) == { polls[i].ticker : i \in { j \in 1..Len(polls) : polls[j].resolved } }

\* for ticker in resolved_tickers: del _PAPER_POSITIONS[ticker]
RECURSIVE Remaining(_, _)
Remaining(positions, resolved_tickers) ==
    IF positions = <<>> THEN <<>>
    ELSE (IF positions[1].ticker \in resolved_tickers THEN <<>> ELSE <<positions[1]>>)
           \o Remaining(Tail(positions), resolved_tickers)

\* ------------------------------------------------------------------------
\* Inputs
\* ------------------------------------------------------------------------

FcKeys == {"today_high", "today_low", "tomorrow_high", "tomorrow_low"}

\* The dict fetch_nws_forecast returns: the grid forecast v for the four
\* periods and the running observations.
NwsForecast(v, running_high, running_low) ==
    [ today_high         |-> v,
      today_low          |-> v,
      tomorrow_high      |-> v,
      tomorrow_low       |-> v,
      today_running_high |-> running_high,
      today_running_low  |-> running_low ]

\* The dict another model's fetch returns, None when the fetch failed.
OtherForecast(v) == IF v = None THEN None ELSE Some([k \in FcKeys |-> v])

\* The bundle run_cycle builds for one city.
CityForecasts(nws_forecast, ecmwf, gfs, hourly) ==
    [ nws        |-> Some(nws_forecast),
      ecmwf      |-> OtherForecast(ecmwf),
      gfs        |-> OtherForecast(gfs),
      gem        |-> None,
      icon       |-> None,
      weatherapi |-> None,
      hourly     |-> hourly ]

\* One entry of the list fetch_kalshi_markets returns.
Market(ticker, series_type, bucket_type, floor, cap, subtitle, event_date, kalshi_prob) ==
    [ ticker      |-> ticker,
      series_type |-> series_type,
      bucket_type |-> bucket_type,
      floor       |-> floor,
      cap         |-> cap,
      subtitle    |-> subtitle,
      event_date  |-> event_date,
      kalshi_prob |-> kalshi_prob ]

RunningHigh == Some([max_observed |-> 50, probable_max |-> 51])

RunningLow == Some([min_observed |-> 50, probable_min |-> 49])

Buckets ==
    { [bucket_type |-> "FLOOR", floor |-> Some(50), cap |-> None,     subtitle |-> "51 or above"],
      [bucket_type |-> "CAP",   floor |-> None,     cap |-> Some(50), subtitle |-> "49 or below"],
      [bucket_type |-> "RANGE", floor |-> Some(50), cap |-> Some(51), subtitle |-> "50 to 51"] }

GateKalshiProbs == {0, 9, 10, 11, 50, 89, 90, 91, 100}

GateNwsTemps == {None} \cup { Some(v) : v \in {44, 45, 46, 50, 55, 56, 57} }

GateEcmwfTemps == {None} \cup { Some(v) : v \in {44, 45, 46, 50, 53, 56, 57, 58} }

\* Inputs that exercise the gates: prices around 10 and 90, consensus around
\* floor - 5 and cap + 5, spreads around 4 and 8.
GateInputs ==
    { [ market |-> Market("T1", "HIGH", b.bucket_type, b.floor, b.cap, b.subtitle, Some(d), kp),
        nws_forecast   |-> NwsForecast(n, rh, None),
        city_forecasts |-> CityForecasts(NwsForecast(n, rh, None), e, None, None),
        now |-> [et_date |-> 0, lst_date |-> 0, lst_hour |-> 9] ] :
      b \in Buckets, d \in {0, 1}, kp \in GateKalshiProbs,
      n \in GateNwsTemps, e \in GateEcmwfTemps, rh \in {None, RunningHigh} }

HourlyData(temp) ==
    Some(<< [date |-> 0, hour |-> 23, temp_f |-> temp], [date |-> 1, hour |-> 5, temp_f |-> 50] >>)

SigmaHourly == {None, Some(<<>>), HourlyData(49), HourlyData(50), HourlyData(51)}

SigmaEcmwfTemps == {None, Some(50), Some(52), Some(54)}

\* Inputs that exercise the dispersion: every hour, both series and labels,
\* the three baselines, with and without observation and hourly forecast.
SigmaInputs ==
    { [ market |-> Market("T1", s, "FLOOR", Some(50), None, "51 or above", Some(d), 40),
        nws_forecast   |-> NwsForecast(Some(50), rh, rl),
        city_forecasts |-> CityForecasts(NwsForecast(Some(50), rh, rl), e, None, hd),
        now |-> [et_date |-> 0, lst_date |-> 0, lst_hour |-> h] ] :
      s \in {"HIGH", "LOW"}, d \in {0, 1}, h \in 0..23, e \in SigmaEcmwfTemps,
      hd \in SigmaHourly, rh \in {None, RunningHigh}, rl \in {None, RunningLow} }

\* A grid forecast with a different value for each period, or none at all.
EstimateGrids ==
    { [today_high |-> Some(60), today_low |-> Some(40),
       tomorrow_high |-> Some(62), tomorrow_low |-> Some(42)],
      [today_high |-> None, today_low |-> None,
       tomorrow_high |-> None, tomorrow_low |-> None] }

EstimateForecast(grid, running_high, running_low) ==
    [ today_high         |-> grid.today_high,
      today_low          |-> grid.today_low,
      tomorrow_high      |-> grid.tomorrow_high,
      tomorrow_low       |-> grid.tomorrow_low,
      today_running_high |-> running_high,
      today_running_low  |-> running_low ]

\* Inputs that exercise the choice of the estimate: the grid forecast differs
\* from the running observation and between the periods; markets of today,
\* tomorrow and the day after; hours with and without time decay.
EstimateInputs ==
    { [ market |-> Market("T1", s, "FLOOR", Some(50), None, "51 or above", Some(d), 40),
        nws_forecast   |-> EstimateForecast(grid, rh, rl),
        city_forecasts |-> CityForecasts(EstimateForecast(grid, rh, rl), Some(50), None, hd),
        now |-> [et_date |-> 0, lst_date |-> 0, lst_hour |-> h] ] :
      s \in {"HIGH", "LOW"}, d \in {0, 1, 2}, h \in {9, 15, 19}, grid \in EstimateGrids,
      hd \in {None, HourlyData(49), HourlyData(51)},
      rh \in {None, RunningHigh}, rl \in {None, RunningLow} }

AnalysisInputs == GateInputs \cup SigmaInputs \cup EstimateInputs

PnlInputs ==
    [ direction : {"BUY YES", "BUY NO"}, entry_price : 0..100, outcome : ApiOutcomes ]

\* A position as check_paper_entries records it, for the given direction and price.
PnlPosition(direction, entry_price) ==
    NewPosition("NYC",
                  [ series_type |-> "HIGH", bucket_label |-> "51 or above", ticker |-> "T1",
                    edge |-> direction, kalshi_prob |-> entry_price,
                    gap |-> IF direction = "BUY YES" THEN 15 ELSE -15,
                    std_dev_used |-> 25000, time_decay_multiplier |-> 100,
                    nws_prob |-> entry_price + (IF direction = "BUY YES" THEN 15 ELSE -15),
                    forecast_temp |-> 50, hourly_adjusted |-> FALSE ],
                  [ spread |-> Some(0), consensus |-> Some(50) ], 0)

Tickers == {"T1", "T2"}

\* The two markets of the lifecycle: T1 resolves on day 0, T2 on day 1.
TickerMarket(ticker, kalshi_prob) ==
    IF ticker = "T1"
    THEN Market("T1", "HIGH", "FLOOR", Some(50), None, "51 or above", Some(0), kalshi_prob)
    ELSE Market("T2", "HIGH", "CAP", None, Some(50), "49 or below", Some(1), kalshi_prob)

\* The prices a cycle can quote for the two markets.
LifePrices == { [T1 |-> p1, T2 |-> p2] : p1 \in {5, 40, 70}, p2 \in {5, 40} }

LifeNwsTemps == {53}

LifeEcmwfTemps == {Some(53)}

\* Cycles that meet every rule of the gate: a price of 85 leaves a gap of 8;
\* the second model reports agreement, nothing, a spread of 6 with a
\* consensus of 56, or a spread of 9.
WideLifePrices == { [T1 |-> p1, T2 |-> p2] : p1 \in {5, 40, 85}, p2 \in {5, 40} }

WideLifeEcmwfTemps == {Some(53), None, Some(59), Some(62)}

\* Most markets in an explored batch.
MaxBatch == 2

\* Bucket shapes the market source can hand over, two of them of a type the
\* engine does not know (with and without a subtitle).
BatchBuckets ==
    Buckets \cup
    { [bucket_type |-> "BETWEEN", floor |-> None, cap |-> None, subtitle |-> ""],
      [bucket_type |-> "",        floor |-> Some(50), cap |-> None, subtitle |-> "50 exactly"] }

\* The markets of a batch but for their tickers; event date 2 is neither today
\* nor tomorrow.
BatchMarkets ==
    [ bucket : BatchBuckets, event_date : {Some(0), Some(1), Some(2)}, kalshi_prob : {40, 60} ]

BatchTicker(k) == IF k = 1 THEN "M1" ELSE IF k = 2 THEN "M2" ELSE "M3"

\* kalshi_markets, and the grid forecast of NWS (None when it has none).
BatchInputs ==
    { [ kalshi_markets |->
          [ k \in 1..Len(ms) |->
              Market(BatchTicker(k), "HIGH", ms[k].bucket.bucket_type, ms[k].bucket.floor,
                     ms[k].bucket.cap, ms[k].bucket.subtitle, ms[k].event_date,
                     ms[k].kalshi_prob) ],
        nws_forecast   |-> NwsForecast(v, None, None),
        city_forecasts |-> CityForecasts(NwsForecast(v, None, None), None, None, None),
        now            |-> [et_date |-> 0, lst_date |-> 0, lst_hour |-> 9] ] :
      ms \in UNION { [1..m -> BatchMarkets] : m \in 0..MaxBatch },
      v \in {None, Some(51)} }

\* Estimates and boundaries at most 12 degrees apart, and every dispersion
\* analyze_gaps can reach.
ProbInputs ==
    [ forecast_temp : 44..56,
      boundary      : {49, 50, 51},
      std_dev       : {10000, 10500, 12000, 12500, 13125, 14000, 15000, 17500, 18750,
                       20000, 21000, 25000, 28000, 30000, 40000} ]

\* Most rows in an explored log.csv.
MaxLogRows == 2

\* A row of log.csv as log_to_csv writes it; the timestamp is the row's place
\* in the file.
LogRow(timestamp, ticker, city, was_settled, confidence) ==
    [ timestamp          |-> timestamp,
      city               |-> city,
      market_type        |-> "HIGH",
      bucket_label       |-> "51 or above",
      kalshi_price       |-> 40,
      nws_implied        |-> 70,
      gap                |-> 30,
      direction          |-> "BUY YES",
      confidence         |-> confidence,
      was_settled        |-> was_settled,
      forecast_temp_used |-> Some(52),
      ticker             |-> ticker ]

\* Tickers of yesterday (day 1), of another day, without a date, and the empty
\* ticker of a row of the old schema.
SignalTickers == {"KXHIGHNY-D1-B50", "KXHIGHNY-D1-T51", "KXHIGHNY-D0-B50", "KXHIGHNY", ""}

SignalRowKinds == [ ticker : SignalTickers, was_settled : {"True", "False"},
                    confidence : {"HIGH", "LOW"} ]

SignalLogs ==
    { [ k \in 1..Len(ks) |->
          LogRow(k, ks[k].ticker, "New York City", ks[k].was_settled, ks[k].confidence) ] :
      ks \in UNION { [1..n -> SignalRowKinds] : n \in 0..MaxLogRows } }

SignalInputs == [ log_file : {None} \cup { Some(l) : l \in SignalLogs }, et_date : {2} ]

\* The last tick of the bot's clock explored.
MaxBotTick == 9

\* A calendar day of the bot's clock lasts DayTicks ticks and run_cycle is
\* scheduled every CyclePeriod ticks (RUN_EVERY_MINUTES); the scheduler thread
\* wakes after 1 to MaxDelay ticks (its sleep, and the running time of a job).
DayTicks == 4

CyclePeriod == 2

MaxDelay == 3

BotDate(t) == t \div DayTicks

\* What ECMWF says in a cycle for one period: it agrees with NWS (spread 0),
\* is 3 degrees away, or has no value.
BotEcmwfTemps == {Some(53), Some(56), None}

\* Where the minute of a cycle falls: the morning-briefing window, the
\* evening-summary window, or outside both.
BotWindows == {"morning", "evening", "none"}

\* The markets the bot follows: they resolve on day 0, 1 and 2.
BotMarkets ==
    << TickerMarket("T1", 40), TickerMarket("T2", 40),
       Market("T3", "HIGH", "FLOOR", Some(50), None, "51 or above", Some(2), 40) >>

\* The ECMWF forecast of a cycle, for today and for tomorrow.
BotEcmwfForecasts ==
    { [ today_high |-> e1, today_low |-> e1, tomorrow_high |-> e2, tomorrow_low |-> e2 ] :
      e1 \in BotEcmwfTemps, e2 \in BotEcmwfTemps }

\* Most resolution checks in an explored run, and the last ET date explored.
MaxRuns == 2

MaxResDay == 2

\* A row of log.csv whose forecast_temp_used is given.
LogRowUsing(timestamp, ticker, city, was_settled, confidence, forecast_temp_used) ==
    [LogRow(timestamp, ticker, city, was_settled, confidence)
        EXCEPT !.forecast_temp_used = forecast_temp_used]

\* log.csv during the resolution checks: three signals of New York City and
\* Chicago and one of a city that is not configured, all for day 0 (a second
\* row of the first ticker came later), one signal for day 1, and a last row
\* of the first ticker, logged with LOW confidence after the estimate moved
\* from 52 to 55.
ResolveLogFile ==
    Some(<< LogRow(1, "KXHIGHNY-D0-B50", "New York City", "False", "HIGH"),
            LogRow(2, "KXHIGHNY-D0-T51", "New York City", "False", "HIGH"),
            LogRow(3, "KXHIGHCHI-D0-B50", "Chicago", "False", "HIGH"),
            LogRow(4, "KXHIGHXX-D0-B50", "Atlantis", "False", "HIGH"),
            LogRow(5, "KXHIGHNY-D0-B50", "New York City", "False", "HIGH"),
            LogRow(6, "KXHIGHNY-D1-B50", "New York City", "False", "HIGH"),
            LogRowUsing(7, "KXHIGHNY-D0-B50", "New York City", "False", "LOW", Some(55)) >>)

ResolveTickers ==
    {"KXHIGHNY-D0-B50", "KXHIGHNY-D0-T51", "KXHIGHCHI-D0-B50", "KXHIGHXX-D0-B50",
     "KXHIGHNY-D1-B50"}

\* What Kalshi answers for each ticker in one check: the first New York
\* market and the Chicago market are settled or not, the others are settled.
ResolveApis ==
    { [ t \in ResolveTickers |->
          IF t = "KXHIGHNY-D0-B50" THEN a ELSE IF t = "KXHIGHCHI-D0-B50" THEN b ELSE "yes" ] :
      a \in {"yes", "no", ""}, b \in {"yes", ""} }

\* What NWS answers for each city in one check: the request for New York
\* fails or returns one reading of 11.0 C.
ResolveNws ==
    { [ c \in {"NYC", "CHI"} |->
          IF c = "NYC" THEN r
          ELSE Some(<< [ temperature |-> Some([value |-> 94, unitCode |-> "wmoUnit:degC"]),
                         maxTemperatureLast24Hours |-> Some(110) ] >>) ] :
      r \in { None,
              Some(<< [ temperature |-> Some([value |-> 110, unitCode |-> "wmoUnit:degC"]),
                        maxTemperatureLast24Hours |-> None ] >>) } }

\* Most readings in an explored feed.
MaxReadings == 2

\* The temperature object of a reading: absent or without value (None), in
\* tenths of a degree Celsius, or in whole degrees Fahrenheit.
ObsTemps ==
    {None} \cup { Some([value |-> v, unitCode |-> "wmoUnit:degC"]) : v \in {-6, 25, 94, 100} }
           \cup { Some([value |-> 50, unitCode |-> "wmoUnit:degF"]) }

\* maxTemperatureLast24Hours of a reading, in tenths of a degree Celsius.
ObsDsm == {None, Some(90), Some(110)}

Readings == [ temperature : ObsTemps, maxTemperatureLast24Hours : ObsDsm ]

Feeds == UNION { [1..n -> Readings] : n \in 0..MaxReadings }

\* response is None when the request to the observations API fails.
ObsInputs ==
    [ station_type : {"5-minute", "hourly"},
      response     : {None} \cup { Some(f) : f \in Feeds } ]

\* ------------------------------------------------------------------------
\* The paper-trading process
\* ------------------------------------------------------------------------

Init ==
    /\ ExtInit
    /\ PAPER_POSITIONS = <<>>
    /\ paper_trade_log = <<>>
    /\ entry_log = <<>>
    /\ resolved_log = <<>>
    /\ last_call = [op |-> "none"]
    /\ today = 0
    /\ analysis_in = None
    /\ analysis_out = None
    /\ pnl_in = None
    /\ pnl_out = None

\* What check_paper_entries met for a Gap Result whose ticker was already
\* open: whether the gate admits it, and whether its price, gap or date label
\* differs from the entry's.
MetOpen(positions, g, forecasts) ==
    LET md  == _get_model_data(g, forecasts)
        pos == Position(positions, g.ticker)
    IN  [ ticker   |-> g.ticker,
          admitted |-> md.has_enough_data /\ _passes_paper_trade_filters(g, md),
          differs  |-> g.kalshi_prob # pos.entry_price \/ g.gap # pos.gap_at_entry,
          label    |-> g.market_date ]

\* One cycle: the markets are fetched and analysed, then check_paper_entries
\* runs.  The cycle's prices and forecasts come from the given sets.
CheckPaperEntriesFrom(price_set, nws_set, ecmwf_set) ==
    \E prices \in price_set, n \in nws_set, e \in ecmwf_set :
        LET now            == [et_date |-> today, lst_date |-> today, lst_hour |-> 9]
            nws_forecast   == NwsForecast(Some(n), None, None)
            city_forecasts == CityForecasts(nws_forecast, e, None, None)
            kalshi_markets == << TickerMarket("T1", prices["T1"]), TickerMarket("T2", prices["T2"]) >>
            gaps           == analyze_gaps(kalshi_markets, nws_forecast, city_forecasts, now)
            all_results    == << <<"NYC", gaps>> >>
            all_forecasts  == [c \in {"NYC"} |-> city_forecasts]
            positions      == check_paper_entries(PAPER_POSITIONS, all_results, all_forecasts, today)
            opened         == SubSeq(positions, Len(PAPER_POSITIONS) + 1, Len(positions))
        IN  /\ PAPER_POSITIONS' = positions
            /\ entry_log' = entry_log \o [i \in 1..Len(opened) |->
                                [ticker |-> opened[i].ticker, day |-> today,
                                 label  |-> gaps[CHOOSE j \in 1..Len(gaps) :
                                              gaps[j].ticker = opened[i].ticker].market_date]]
            /\ last_call' = [op |-> "check",
                             met_open |-> { MetOpen(PAPER_POSITIONS, gaps[i], city_forecasts) :
                                            i \in { j \in 1..Len(gaps) :
                                                      gaps[j].ticker \in Keys(PAPER_POSITIONS) } }]
            /\ UNCHANGED << paper_trade_log, resolved_log, today,
                            analysis_in, analysis_out, pnl_in, pnl_out >>
            /\ UNCHANGED ext_vars

CheckPaperEntries == CheckPaperEntriesFrom(LifePrices, LifeNwsTemps, LifeEcmwfTemps)

\* A cycle of the wider range.
WideCheckPaperEntries ==
    CheckPaperEntriesFrom(WideLifePrices, LifeNwsTemps, WideLifeEcmwfTemps)

\* One invocation of resolve_paper_trades; each status call and each append
\* to the CSV succeeds or fails as the environment decides, within the given
\* sets.
ResolvePaperTradesUpTo(max_resolved, outcome_set, csv_set) ==
    \E outcomes \in [Keys(PAPER_POSITIONS) -> outcome_set],
       csv_oks \in [Keys(PAPER_POSITIONS) -> csv_set] :
        LET polls == PollAll(PAPER_POSITIONS, outcomes, csv_oks, today) IN
        /\ Len(resolved_log) + Cardinality(ResolvedTickers(polls)) <= max_resolved
        /\ \A k \in Keys(PAPER_POSITIONS) : outcomes[k] \notin {"yes", "no"} => csv_oks[k]
        /\ PAPER_POSITIONS' = Remaining(PAPER_POSITIONS, ResolvedTickers(polls))
        /\ paper_trade_log' = paper_trade_log \o RowsWritten(polls)
        /\ resolved_log' = resolved_log \o ResolvedLines(polls)
        /\ last_call' = [op |-> "resolve",
                         polls |-> [i \in 1..Len(polls) |->
                                       [ticker  |-> polls[i].ticker,
                                        outcome |-> polls[i].outcome]]]
        /\ UNCHANGED << entry_log, today, analysis_in, analysis_out, pnl_in, pnl_out >>
        /\ UNCHANGED ext_vars

ResolvePaperTradesFrom(outcome_set, csv_set) ==
    ResolvePaperTradesUpTo(MaxResolved, outcome_set, csv_set)

ResolvePaperTrades == ResolvePaperTradesFrom(LifeOutcomes, BOOLEAN)

\* An invocation that meets settled and open markets only.
SettlePaperTrades == ResolvePaperTradesFrom({"yes", ""}, {TRUE})

\* Midnight passes between two invocations and reset_paper_trading runs.
Midnight ==
    /\ today < MaxDay
    /\ today' = today + 1
    /\ last_call' = [op |-> "none"]
    /\ PAPER_POSITIONS' = reset_paper_trading(PAPER_POSITIONS)
    /\ UNCHANGED << paper_trade_log, entry_log, resolved_log,
                    analysis_in, analysis_out, pnl_in, pnl_out >>
    /\ UNCHANGED ext_vars

Next == CheckPaperEntries \/ ResolvePaperTrades \/ Midnight

Spec == Init /\ [][Next]_vars

\* The lifecycle under the wider range of cycles, with markets that are
\* settled YES or still open and a CSV that can be written.
NextGate == WideCheckPaperEntries \/ SettlePaperTrades \/ Midnight

SpecGate == Init /\ [][NextGate]_vars

\* The lifecycle of a process that opens at most MaxEntries positions, so
\* that every position opened can be resolved within the explored run.
LiveCheckPaperEntries == CheckPaperEntries /\ Len(entry_log') <= MaxEntries

LiveResolvePaperTrades == ResolvePaperTradesUpTo(MaxEntries, LifeOutcomes, BOOLEAN)

\* An invocation of resolve_paper_trades in which the status call for the
\* open ticker succeeds and the market reports YES or NO.
Reports(ticker) ==
    /\ ticker \in Keys(PAPER_POSITIONS)
    /\ LiveResolvePaperTrades
    /\ \E i \in 1..Len(last_call'.polls) :
         /\ last_call'.polls[i].ticker = ticker
         /\ last_call'.polls[i].outcome \in {"yes", "no"}

NextLive == LiveCheckPaperEntries \/ LiveResolvePaperTrades \/ Midnight

\* Fairness: the scheduler keeps invoking resolve_paper_trades every cycle
\* (bot.py run_cycle), and for each open ticker an invocation in which its
\* market reports YES or NO and the call succeeds eventually happens.
SpecLive ==
    /\ Init
    /\ [][NextLive]_vars
    /\ WF_vars(LiveResolvePaperTrades)
    /\ \A ticker \in LifeTickers : WF_vars(Reports(ticker))

\* ------------------------------------------------------------------------
\* The analysis of one market and the gates, as functions of their inputs
\* ------------------------------------------------------------------------

InitAnalysis ==
    /\ ExtInit
    /\ analysis_in \in { Some(i) : i \in AnalysisInputs }
    /\ analysis_out = None
    /\ PAPER_POSITIONS = <<>>
    /\ paper_trade_log = <<>>
    /\ entry_log = <<>>
    /\ resolved_log = <<>>
    /\ last_call = [op |-> "none"]
    /\ today = 0
    /\ pnl_in = None
    /\ pnl_out = None

Analyze ==
    /\ analysis_in # None
    /\ analysis_out = None
    /\ LET i      == Val(analysis_in)
           result == AnalyzeMarket(i.market, i.nws_forecast, i.city_forecasts, i.now)
           bot_g  == bot_AnalyzeMarket(i.market, i.nws_forecast, i.city_forecasts, i.now)
       IN  analysis_out' =
             IF result = None
             THEN Some([g |-> None, bot_g |-> bot_g, md |-> None, admit |-> None])
             ELSE LET g  == Val(result)
                      md == _get_model_data(g, i.city_forecasts)
                  IN  Some([ g     |-> Some(g),
                             bot_g |-> bot_g,
                             md    |-> Some(md),
                             admit |-> Some([ email     |-> _apply_email_filters(g, md),
                                              paper     |-> _passes_paper_trade_filters(g, md),
                                              bot_email |-> bot_apply_email_filters(g, md) ]) ])
    /\ UNCHANGED << analysis_in, pnl_in, pnl_out, lifecycle_vars >>
    /\ UNCHANGED ext_vars

NextAnalysis == Analyze

SpecAnalysis == InitAnalysis /\ [][NextAnalysis]_vars

\* ------------------------------------------------------------------------
\* The PnL of one resolution, on the live path and in the historical scorer
\* ------------------------------------------------------------------------

InitPnl ==
    /\ ExtInit
    /\ pnl_in \in { Some(i) : i \in PnlInputs }
    /\ pnl_out = None
    /\ PAPER_POSITIONS = <<>>
    /\ paper_trade_log = <<>>
    /\ entry_log = <<>>
    /\ resolved_log = <<>>
    /\ last_call = [op |-> "none"]
    /\ today = 0
    /\ analysis_in = None
    /\ analysis_out = None

ComputePnl ==
    /\ pnl_in # None
    /\ pnl_out = None
    /\ LET i == Val(pnl_in) IN
       pnl_out' = Some([ live   |-> PollOne(PnlPosition(i.direction, i.entry_price),
                                            i.outcome, TRUE, 0).pnl,
                         scorer |-> ScoreSignal([direction    |-> i.direction,
                                                 kalshi_price |-> i.entry_price],
                                                i.outcome) ])
    /\ UNCHANGED << pnl_in, analysis_in, analysis_out, lifecycle_vars >>
    /\ UNCHANGED ext_vars

NextPnl == ComputePnl

SpecPnl == InitPnl /\ [][NextPnl]_vars

\* ------------------------------------------------------------------------
\* The running-extreme trackers, as functions of the station and its feed
\* ------------------------------------------------------------------------

InitObs ==
    /\ obs_in \in { Some(i) : i \in ObsInputs }
    /\ obs_out = None
    /\ IdleExcept("obs")

TrackExtremes ==
    /\ obs_in # None
    /\ obs_out = None
    /\ LET i == Val(obs_in) IN
       obs_out' = Some([ high   |-> get_current_running_high(i.station_type, i.response),
                         low    |-> get_current_running_low(i.station_type, i.response),
                         actual |-> fetch_actual_temperature(i.station_type, i.response) ])
    /\ UNCHANGED obs_in
    /\ FrameExcept("obs")

NextObs == TrackExtremes

SpecObs == InitObs /\ [][NextObs]_vars

\* ------------------------------------------------------------------------
\* One call of analyze_gaps on a batch of markets
\* ------------------------------------------------------------------------

InitBatch ==
    /\ batch_in \in { Some(i) : i \in BatchInputs }
    /\ batch_out = None
    /\ IdleExcept("batch")

AnalyzeBatch ==
    /\ batch_in # None
    /\ batch_out = None
    /\ LET i == Val(batch_in) IN
       batch_out' = Some(analyze_gaps(i.kalshi_markets, i.nws_forecast, i.city_forecasts, i.now))
    /\ UNCHANGED batch_in
    /\ FrameExcept("batch")

NextBatch == AnalyzeBatch

SpecBatch == InitBatch /\ [][NextBatch]_vars

\* ------------------------------------------------------------------------
\* The probabilities of the two one-sided buckets at one boundary
\* ------------------------------------------------------------------------

InitProb ==
    /\ prob_in \in { Some(i) : i \in ProbInputs }
    /\ prob_out = None
    /\ IdleExcept("prob")

ComputeProb ==
    /\ prob_in # None
    /\ prob_out = None
    /\ LET i     == Val(prob_in)
           above == calculate_gaussian_probability(i.forecast_temp, "FLOOR",
                                                   Some(i.boundary), None, i.std_dev)
           below == calculate_gaussian_probability(i.forecast_temp, "CAP",
                                                   None, Some(i.boundary), i.std_dev)
       IN  prob_out' = Some([ above_raw |-> above, below_raw |-> below,
                              above |-> RoundProb(above), below |-> RoundProb(below) ])
    /\ UNCHANGED prob_in
    /\ FrameExcept("prob")

NextProb == ComputeProb

SpecProb == InitProb /\ [][NextProb]_vars

\* ------------------------------------------------------------------------
\* One call of load_yesterday_signals
\* ------------------------------------------------------------------------

InitSignals ==
    /\ sig_in \in { Some(i) : i \in SignalInputs }
    /\ sig_out = None
    /\ IdleExcept("sig")

LoadSignals ==
    /\ sig_in # None
    /\ sig_out = None
    /\ sig_out' = Some(load_yesterday_signals(Val(sig_in).log_file, Val(sig_in).et_date))
    /\ UNCHANGED sig_in
    /\ FrameExcept("sig")

NextSignals == LoadSignals

SpecSignals == InitSignals /\ [][NextSignals]_vars

\* ------------------------------------------------------------------------
\* The bot process: the start-up cycle, then the scheduler thread
\* ------------------------------------------------------------------------

\* One run_cycle at time t with ECMWF forecast e: the state of the two sets
\* after it.
RunCycle(flagged, alerted, t, e) ==
    LET now            == [et_date |-> BotDate(t), lst_date |-> BotDate(t), lst_hour |-> 9]
        nws_forecast   == NwsForecast(Some(53), None, None)
        city_forecasts == [CityForecasts(nws_forecast, None, None, None) EXCEPT !.ecmwf = Some(e)]
        gaps           == analyze_gaps(BotMarkets, nws_forecast, city_forecasts, now)
        st             == SpreadTracking([flagged |-> flagged, alerted |-> alerted,
                                          converged |-> <<>>],
                                         << <<"NYC", gaps>> >>,
                                         [c \in {"NYC"} |-> city_forecasts])
    IN  st

\* The rest of run_cycle: the e-mail it sends after the tracking st.
MailCycle(st, morning_sent, evening_sent, t, window) ==
    LET mail == EmailDecision(window, morning_sent, evening_sent, BotDate(t), st.converged)
    IN  [ flagged |-> st.flagged, alerted |-> st.alerted, converged |-> st.converged,
          email |-> mail.email, named |-> mail.named,
          morning_sent |-> mail.morning_sent, evening_sent |-> mail.evening_sent ]

\* The ghost record of a cycle run at time t from the sets given.
CycleRecord(flagged, alerted, t, first_of_date, converged, email) ==
    [ op |-> "cycle", date |-> BotDate(t), first_of_date |-> first_of_date,
      flagged_at_start |-> flagged, alerted_at_start |-> alerted,
      converged_markets |-> converged, email |-> email ]

\* __main__: the cycle run on start-up, then the two jobs are scheduled.
BotStart ==
    /\ jobs = None
    /\ \E e \in BotEcmwfForecasts :
         LET tracked == RunCycle(HIGH_SPREAD_FLAGGED, SPREAD_ALERTED, bot_now, e) IN
         \E window \in BotWindows :
         LET st == MailCycle(tracked, MORNING_SENT_DATE, EVENING_SENT_DATE, bot_now, window) IN
         /\ HIGH_SPREAD_FLAGGED' = st.flagged
         /\ SPREAD_ALERTED' = st.alerted
         /\ MORNING_SENT_DATE' = st.morning_sent
         /\ EVENING_SENT_DATE' = st.evening_sent
         /\ bot_alerts' = bot_alerts \cup st.named
         /\ bot_last' = CycleRecord(HIGH_SPREAD_FLAGGED, SPREAD_ALERTED, bot_now, TRUE,
                                    st.converged, st.email)
    /\ jobs' = Some([ run_cycle         |-> bot_now + CyclePeriod,
                      reset_daily_state |-> (BotDate(bot_now) + 1) * DayTicks,
                      cycle_date        |-> BotDate(bot_now) ])
    /\ UNCHANGED bot_now
    /\ FrameExcept("bot")

\* The scheduler thread wakes at time t and schedule.run_pending() runs the
\* jobs that are due in the order of their next_run (run_cycle first on a
\* tie, as it was registered first); each job is rescheduled from t.
BotWake ==
    /\ jobs # None
    /\ \E d \in 1..MaxDelay, e \in BotEcmwfForecasts :
         LET t           == bot_now + d
             j           == Val(jobs)
             cycle_due   == j.run_cycle <= t
             reset_due   == j.reset_daily_state <= t
             reset_first == reset_due /\ (~cycle_due \/ j.reset_daily_state < j.run_cycle)
             flagged0    == IF reset_first THEN {} ELSE HIGH_SPREAD_FLAGGED
             alerted0    == IF reset_first THEN {} ELSE SPREAD_ALERTED
             alerts0     == IF reset_first THEN {} ELSE bot_alerts
             tracked     == IF cycle_due
                            THEN RunCycle(flagged0, alerted0, t, e)
                            ELSE [flagged |-> flagged0, alerted |-> alerted0,
                                  converged |-> <<>>]
             reset_last  == reset_due /\ ~reset_first
         IN  \E window \in BotWindows :
             LET st == IF cycle_due
                       THEN MailCycle(tracked, MORNING_SENT_DATE, EVENING_SENT_DATE, t, window)
                       ELSE [flagged |-> flagged0, alerted |-> alerted0,
                             converged |-> <<>>, email |-> "none", named |-> {},
                             morning_sent |-> MORNING_SENT_DATE,
                             evening_sent |-> EVENING_SENT_DATE]
             IN
             /\ t <= MaxBotTick
             /\ bot_now' = t
             /\ HIGH_SPREAD_FLAGGED' = IF reset_last THEN {} ELSE st.flagged
             /\ SPREAD_ALERTED' = IF reset_last THEN {} ELSE st.alerted
             /\ bot_alerts' = IF reset_last THEN {} ELSE alerts0 \cup st.named
             /\ MORNING_SENT_DATE' = st.morning_sent
             /\ EVENING_SENT_DATE' = st.evening_sent
             /\ jobs' = Some([ run_cycle         |-> IF cycle_due THEN t + CyclePeriod
                                                     ELSE j.run_cycle,
                               reset_daily_state |-> IF reset_due THEN (BotDate(t) + 1) * DayTicks
                                                     ELSE j.reset_daily_state,
                               cycle_date        |-> IF cycle_due THEN BotDate(t)
                                                     ELSE j.cycle_date ])
             /\ bot_last' = IF cycle_due
                            THEN CycleRecord(flagged0, alerted0, t, BotDate(t) # j.cycle_date,
                                             st.converged, st.email)
                            ELSE [op |-> IF reset_due THEN "reset" ELSE "none"]
    /\ FrameExcept("bot")

NextBot == BotStart \/ BotWake

InitBot == BotIdle /\ IdleExcept("bot")

SpecBot == InitBot /\ [][NextBot]_vars

\* ------------------------------------------------------------------------
\* The resolver process: run_resolution, the scheduler tick, midnight
\* ------------------------------------------------------------------------

\* The state after one run_resolution_check whose outcome is run; op names the
\* entry point that was called.
Resolved(op, run) ==
    /\ RAN_FOR_DATE' = run.ran_for_date
    /\ resolve_log' = resolve_log \o run.resolved_rows
    /\ res_runs' = res_runs + 1
    /\ res_last' = [ op |-> op, ran_before |-> RAN_FOR_DATE, scored |-> TRUE,
                     returned |-> run.returned, appended |-> Len(run.resolved_rows),
                     fetches |-> run.fetches, rows |-> run.resolved_rows,
                     signals |-> run.signals ]
    /\ UNCHANGED res_date

\* A call of run_resolution().
RunResolution ==
    /\ res_runs < MaxRuns
    /\ \E api \in ResolveApis, nws \in ResolveNws :
         Resolved("run_resolution", run_resolution(ResolveLogFile, res_date, api, nws))
    /\ FrameExcept("res")

\* A tick of the scheduler: _maybe_run(), at 9:30 to 9:59 ET (due) or at
\* another time.
MaybeRun ==
    /\ res_runs < MaxRuns
    /\ \E due \in BOOLEAN, api \in ResolveApis, nws \in ResolveNws :
         IF due /\ RAN_FOR_DATE # Some(res_date)
         THEN Resolved("maybe_run", run_resolution_check(ResolveLogFile, res_date, api, nws))
         ELSE /\ res_last' = [ op |-> "maybe_run", ran_before |-> RAN_FOR_DATE,
                               scored |-> FALSE, returned |-> 0, appended |-> 0,
                               fetches |-> <<>>, rows |-> <<>>, signals |-> <<>> ]
              /\ UNCHANGED << RAN_FOR_DATE, resolve_log, res_date, res_runs >>
    /\ FrameExcept("res")

\* Midnight ET passes.
ResMidnight ==
    /\ res_date < MaxResDay
    /\ res_date' = res_date + 1
    /\ res_last' = [op |-> "none"]
    /\ UNCHANGED << RAN_FOR_DATE, resolve_log, res_runs >>
    /\ FrameExcept("res")

NextResolve == RunResolution \/ MaybeRun \/ ResMidnight

InitResolve == ResIdle /\ IdleExcept("res")

SpecResolve == InitResolve /\ [][NextResolve]_vars

\* ------------------------------------------------------------------------
\* Properties
\* ------------------------------------------------------------------------

Polls == IF last_call.op = "resolve" THEN last_call.polls ELSE <<>>

MetOpenSet == IF last_call.op = "check" THEN last_call.met_open ELSE {}

AnalysedG == Val(Val(analysis_out).g)

AnalysedMd == Val(Val(analysis_out).md)

Admit == Val(Val(analysis_out).admit)

Analysed == analysis_out # None /\ Val(analysis_out).g # None

\* C1: within one calendar day at most one paper position is created for a
\* ticker, also after an earlier position for it was resolved that day.
C1_OnePositionPerTickerPerDay ==
    \A i, j \in 1..Len(entry_log) :
        (entry_log[i].ticker = entry_log[j].ticker /\ entry_log[i].day = entry_log[j].day)
            => i = j

\* C2: a check_paper_entries step leaves every position that was open before
\* it in the table, at its place and with its entry unchanged.
C2_OpenEntryKept ==
    [][ last_call'.op = "check" =>
          /\ Len(PAPER_POSITIONS') >= Len(PAPER_POSITIONS)
          /\ \A i \in 1..Len(PAPER_POSITIONS) : PAPER_POSITIONS'[i] = PAPER_POSITIONS[i] ]_vars

\* C2 witness: check_paper_entries has just met an open ticker that the gate
\* still admits at a price other than the entry's, and the entry still holds
\* the old price.
C2_Witness ==
    \E m \in MetOpenSet :
        /\ m.admitted
        /\ m.differs
        /\ m.ticker \in Keys(PAPER_POSITIONS)

\* C3: after a poll that met a voided market, the position is no longer open
\* and a trade record with profit/loss 0 was written for it.
C3_VoidedResolves ==
    \A i \in 1..Len(Polls) :
        Polls[i].outcome = "voided" =>
            /\ Polls[i].ticker \notin Keys(PAPER_POSITIONS)
            /\ \E k \in 1..Len(paper_trade_log) :
                   paper_trade_log[k].ticker = Polls[i].ticker /\ paper_trade_log[k].pnl_cents = 0

\* The PnL table of the specification.
TablePnl(direction, p, result) ==
    CASE direction = "BUY YES" /\ result = "yes" -> 100 - p
      [] direction = "BUY YES" /\ result = "no"  -> 0 - p
      [] direction = "BUY NO"  /\ result = "no"  -> p
      [] direction = "BUY NO"  /\ result = "yes" -> 0 - (100 - p)

\* C4: for a market resolved YES or NO the live path and the historical scorer
\* both compute the PnL of the table: BUY YES 100 - p / -p, BUY NO p / -(100 - p).
C4_PnlTable ==
    (pnl_out # None /\ Val(pnl_in).outcome \in {"yes", "no"}) =>
        LET i        == Val(pnl_in)
            expected == TablePnl(i.direction, i.entry_price, i.outcome)
        IN  /\ Val(pnl_out).live = Some(expected)
            /\ Val(pnl_out).scorer # None
            /\ Val(Val(pnl_out).scorer).pnl_cents = expected

\* C4 witness: BUY NO at 22 resolving YES has been scored -78 on both paths.
C4_Witness ==
    /\ pnl_out # None
    /\ Val(pnl_in) = [direction |-> "BUY NO", entry_price |-> 22, outcome |-> "yes"]
    /\ Val(pnl_out).live = Some(-78)
    /\ Val(Val(pnl_out).scorer).pnl_cents = -78

\* C5: a resolve_paper_trades step polls every position that was open, in
\* order, whatever the calls before it returned, and a position whose call
\* failed stays in the table with its entry unchanged.
C5_FailedCallKeepsPosition ==
    [][ last_call'.op = "resolve" =>
          /\ Len(last_call'.polls) = Len(PAPER_POSITIONS)
          /\ \A i \in 1..Len(PAPER_POSITIONS) :
                /\ last_call'.polls[i].ticker = PAPER_POSITIONS[i].ticker
                /\ last_call'.polls[i].outcome = "error" =>
                       \E k \in 1..Len(PAPER_POSITIONS') :
                           PAPER_POSITIONS'[k] = PAPER_POSITIONS[i] ]_vars

\* C5 witness: in the last invocation the first status call failed, the
\* second position was polled all the same and resolved, and the failed one
\* is still open.
C5_Witness ==
    /\ Len(Polls) = 2
    /\ Polls[1].outcome = "error"
    /\ Polls[2].outcome = "yes"
    /\ Keys(PAPER_POSITIONS) = {Polls[1].ticker}

\* C6: every position removed from the table has its record in the paper-trade
\* log: the removals logged and the rows written are the same, in order.
C6_RemovedHasRecord ==
    /\ Len(paper_trade_log) = Len(resolved_log)
    /\ \A i \in 1..Len(resolved_log) :
          /\ paper_trade_log[i].ticker = resolved_log[i].ticker
          /\ paper_trade_log[i].exit_result = resolved_log[i].result
          /\ paper_trade_log[i].pnl_cents = resolved_log[i].pnl

\* C7 as stated: a quoted probability of 10 or below, or 90 or above, is
\* rejected by every gate.
C7_RejectsTenAndNinety ==
    (Analysed /\ (AnalysedG.kalshi_prob <= 10 \/ AnalysedG.kalshi_prob >= 90)) =>
        (~Admit.email /\ ~Admit.paper)

\* C7 amended: a quoted probability below 10 or above 90, and no other, is
\* flagged near-resolution, and a flagged market is rejected by every gate.
C7_RejectsOutsideTenToNinety ==
    Analysed =>
        /\ AnalysedG.was_settled <=> (AnalysedG.kalshi_prob < 10 \/ AnalysedG.kalshi_prob > 90)
        /\ (AnalysedG.kalshi_prob < 10 \/ AnalysedG.kalshi_prob > 90) =>
               (~Admit.email /\ ~Admit.paper /\ ~Admit.bot_email)

\* C7 witness: a market quoted at 91 that rules 2 to 4 would admit has been
\* rejected by the gates.
C7_Witness ==
    /\ Analysed
    /\ AnalysedG.kalshi_prob = 91
    /\ _passes_paper_trade_filters([AnalysedG EXCEPT !.was_settled = FALSE], AnalysedMd)
    /\ ~Admit.paper
    /\ ~Admit.email

\* C8: the alerting gates and the paper-trade gate decide alike on every Gap
\* Result and model summary, in every copy of the filter.
C8_GatesAgree ==
    Analysed => (Admit.email = Admit.paper /\ Admit.bot_email = Admit.paper)

\* Rule 4 as the specification states it.
Rule4Rejects(g, md) ==
    /\ md.consensus # None
    /\ LET c == Val(md.consensus) IN
       CASE g.bucket_type = "FLOOR" -> c < Val(g.floor) - 5
         [] g.bucket_type = "CAP"   -> c > Val(g.cap) + 5
         [] g.bucket_type = "RANGE" -> c < Val(g.floor) - 5 \/ c > Val(g.cap) + 5

\* C9: for a market that passes rules 1 to 3, the gates of alerts.py reject
\* exactly when rule 4 applies: a consensus exists and lies below floor - 5
\* (ABOVE_FLOOR, WITHIN_RANGE) or above cap + 5 (BELOW_CAP, WITHIN_RANGE).
C9_ConsensusRule ==
    ( /\ Analysed
      /\ ~AnalysedG.was_settled
      /\ Abs(AnalysedG.gap) >= 15
      /\ (AnalysedMd.spread = None \/ Val(AnalysedMd.spread) < 8) ) =>
        /\ Admit.paper = ~Rule4Rejects(AnalysedG, AnalysedMd)
        /\ Admit.email = ~Rule4Rejects(AnalysedG, AnalysedMd)

\* C9 witness: an ABOVE_FLOOR market whose consensus is exactly floor - 5 has
\* passed the gate.
C9_Witness ==
    /\ Analysed
    /\ AnalysedG.bucket_type = "FLOOR"
    /\ AnalysedMd.consensus = Some(Val(AnalysedG.floor) - 5)
    /\ Admit.paper
    /\ Admit.email

\* C10: the dispersion recorded in a Gap Result is at least 1.0.
C10_StdDevFloor == Analysed => AnalysedG.std_dev_used >= 10000

\* C10 witness: a today market with an observation, analysed at 17h or later
\* with the hourly forecast corroborating, whose dispersion the floor holds at 1.0.
C10_Witness ==
    /\ Analysed
    /\ AnalysedG.time_decay_multiplier = 30
    /\ AnalysedG.hourly_adjusted
    /\ AnalysedG.std_dev_used = 10000

\* ------------------------------------------------------------------------
\* Properties of the running-extreme trackers
\* ------------------------------------------------------------------------

Tracked == obs_out # None

RunningHighOut == Val(obs_out).high

RunningLowOut == Val(obs_out).low

ObsFeed == IF Val(obs_in).response = None THEN <<>> ELSE Val(Val(obs_in).response)

\* C11: in every result of the trackers the probable bound is at least as
\* extreme as the conservative value: probable_max >= max_observed for the
\* running high, probable_min <= min_observed for the running low.
C11_ProbableBoundsConservative ==
    Tracked =>
        /\ RunningHighOut # None =>
              Val(RunningHighOut).probable_max >= Val(RunningHighOut).max_observed
        /\ RunningLowOut # None =>
              Val(RunningLowOut).probable_min <= Val(RunningLowOut).min_observed

\* C11 witness: a 5-minute station whose rolling-24-hour maximum (51) raised
\* max_observed above every reading, and whose lowest reading (10.0 C) has a
\* probable_min below min_observed.
C11_Witness ==
    /\ Tracked
    /\ Val(obs_in).station_type = "5-minute"
    /\ RunningHighOut # None /\ RunningLowOut # None
    /\ Val(RunningHighOut).obs_count >= 1
    /\ Val(RunningHighOut).max_observed = 51
    /\ Val(RunningHighOut).probable_max = 51
    /\ Val(RunningLowOut).min_observed = 50
    /\ Val(RunningLowOut).probable_min = 49

\* C12: when the request succeeded and no reading of the feed has a usable
\* temperature, both trackers return None, also when a reading carries a
\* rolling-24-hour maximum.
C12_NoUsableTemperatureIsNone ==
    ( /\ Tracked
      /\ \A k \in 1..Len(ObsFeed) : ObsFeed[k].temperature = None )
        => RunningHighOut = None /\ RunningLowOut = None

\* ------------------------------------------------------------------------
\* Properties of the probability engine
\* ------------------------------------------------------------------------

BatchMarketsIn == Val(batch_in).kalshi_markets

BatchOut == Val(batch_out)

KnownBucketTypes == {"FLOOR", "CAP", "RANGE"}

\* The market is for today or tomorrow and NWS has a forecast for it.
Analysable(market) ==
    /\ DateLabel(market, Val(batch_in).now) # None
    /\ Val(batch_in).nws_forecast.today_high # None

ResultsFor(ticker) == { k \in 1..Len(BatchOut) : BatchOut[k].ticker = ticker }

\* C13: analyze_gaps returns one Gap Result for every market of the batch that
\* is for today or tomorrow and has a forecast, whatever the bucket types in
\* the batch; for a bucket type the engine does not know the model
\* probability is 50 and the gap is 50 minus the quoted probability.
C13_UnknownBucketNeutral ==
    batch_out # None =>
        \A k \in 1..Len(BatchMarketsIn) :
            LET market == BatchMarketsIn[k] IN
            /\ Cardinality(ResultsFor(market.ticker)) = (IF Analysable(market) THEN 1 ELSE 0)
            /\ (Analysable(market) /\ market.bucket_type \notin KnownBucketTypes) =>
                  \A r \in ResultsFor(market.ticker) :
                      /\ BatchOut[r].nws_prob = 50
                      /\ BatchOut[r].gap = 50 - market.kalshi_prob
                      /\ BatchOut[r].bucket_type = market.bucket_type

\* C13 witness: a batch whose first market has an unknown bucket type and no
\* subtitle and whose second is an ABOVE_FLOOR market; both have a result.
C13_Witness ==
    /\ batch_out # None
    /\ Len(BatchMarketsIn) = 2
    /\ BatchMarketsIn[1].bucket_type = "BETWEEN"
    /\ BatchMarketsIn[2].bucket_type = "FLOOR"
    /\ Len(BatchOut) = 2
    /\ \E r \in 1..2 : BatchOut[r].ticker = "M1" /\ BatchOut[r].nws_prob = 50
    /\ \E r \in 1..2 : BatchOut[r].ticker = "M2" /\ BatchOut[r].nws_prob # 50

\* C14: the ABOVE_FLOOR and the BELOW_CAP probability at the same boundary sum
\* to 100, before and after each is rounded to an integer.
C14_Complementary ==
    prob_out # None =>
        /\ Val(prob_out).above_raw + Val(prob_out).below_raw = 1000000
        /\ Val(prob_out).above + Val(prob_out).below = 100

\* C14 witness: neither probability is a whole number and the two are rounded
\* in opposite directions (84.1345 to 84, 15.8655 to 16).
C14_Witness ==
    /\ prob_out # None
    /\ Val(prob_out).above_raw = 841345
    /\ Val(prob_out).above = 84
    /\ Val(prob_out).below = 16

\* ------------------------------------------------------------------------
\* Properties of the historical scorer
\* ------------------------------------------------------------------------

SignalLog == IF Val(sig_in).log_file = None THEN <<>> ELSE Val(Val(sig_in).log_file)

ByTicker == Val(sig_out).by_ticker

\* The rows of the log with the ticker that are of yesterday, not near
\* resolution and of HIGH confidence.
Qualifying(ticker) ==
    { k \in 1..Len(SignalLog) :
        /\ SignalLog[k].ticker = ticker
        /\ ResolveDate(ticker) = Some(Val(sig_in).et_date - 1)
        /\ SignalLog[k].was_settled = "False"
        /\ SignalLog[k].confidence = "HIGH" }

LastOf(ks) == CHOOSE k \in ks : \A j \in ks : j <= k

\* C15: load_yesterday_signals returns for each ticker the last row of the log
\* that has the ticker, yesterday's resolution date, was_settled false and
\* confidence HIGH; a ticker without such a row is absent, and no two entries
\* share a ticker.
C15_LastQualifyingRow ==
    sig_out # None =>
        /\ \A i, j \in 1..Len(ByTicker) : ByTicker[i].ticker = ByTicker[j].ticker => i = j
        /\ \A i \in 1..Len(ByTicker) : ByTicker[i].ticker \in SignalTickers \ {""}
        /\ \A ticker \in SignalTickers \ {""} :
              IF Qualifying(ticker) = {}
              THEN \A i \in 1..Len(ByTicker) : ByTicker[i].ticker # ticker
              ELSE \E i \in 1..Len(ByTicker) :
                      /\ ByTicker[i].ticker = ticker
                      /\ ByTicker[i].row = SignalLog[LastOf(Qualifying(ticker))]

\* C15 witness: the log holds two qualifying rows of one ticker and the
\* result holds the second.
C15_Witness ==
    /\ sig_out # None
    /\ Len(SignalLog) = 2
    /\ Qualifying("KXHIGHNY-D1-B50") = {1, 2}
    /\ Len(ByTicker) = 1
    /\ ByTicker[1].row.timestamp = 2

\* ------------------------------------------------------------------------
\* Properties of the bot's daily state
\* ------------------------------------------------------------------------

\* C17: the first cycle that runs on a new calendar date starts with the
\* flagged and the alerted set empty.
C17_FirstCycleOfDateStartsEmpty ==
    (bot_last.op = "cycle" /\ bot_last.first_of_date) =>
        bot_last.flagged_at_start = {} /\ bot_last.alerted_at_start = {}

\* ------------------------------------------------------------------------
\* Properties of the daily resolution check
\* ------------------------------------------------------------------------

CheckRan == res_last.op \in {"run_resolution", "maybe_run"} /\ res_last.scored

\* C16: in one run of run_resolution_check the actual temperatures of a city
\* are requested from NWS at most once, however many of its markets are
\* scored and whether or not the request succeeded.
C16_ActualsFetchedOncePerCity ==
    CheckRan =>
        \A i, j \in 1..Len(res_last.fetches) :
            res_last.fetches[i] = res_last.fetches[j] => i = j

\* C16 witness: a run scored two New York markets and one of Chicago, the
\* request for New York failed (its rows have no actual temperature) and each
\* city was requested once.
C16_Witness ==
    /\ CheckRan
    /\ res_last.fetches = <<"NYC", "CHI">>
    /\ Cardinality({ k \in 1..Len(res_last.rows) :
                       /\ res_last.rows[k].city = "New York City"
                       /\ res_last.rows[k].actual_temp = None }) = 2
    /\ \E k \in 1..Len(res_last.rows) :
          res_last.rows[k].city = "Chicago" /\ res_last.rows[k].actual_temp = Some(51)

\* C20: a call of run_resolution or a tick of _maybe_run on an ET date on
\* which the check has already run scores nothing, returns 0 and appends no
\* row to the resolution log.
C20_ScoresADayOnce ==
    ( /\ res_last.op \in {"run_resolution", "maybe_run"}
      /\ res_last.ran_before = Some(res_date) )
        => /\ ~res_last.scored
           /\ res_last.returned = 0
           /\ res_last.appended = 0

\* ------------------------------------------------------------------------
\* Properties of the paper-trade table across the date labels
\* ------------------------------------------------------------------------

\* C18: check_paper_entries opens positions only for markets labelled
\* "today": no entry was ever made for a Gap Result whose market_date was
\* "tomorrow".
C18_EntersTodayMarketsOnly ==
    \A i \in 1..Len(entry_log) : entry_log[i].label # "tomorrow"

\* C19: the midnight reset leaves the table of open positions as it was:
\* the same positions, in the same order, with the same entries.
C19_MidnightKeepsPositions ==
    [][ today' # today => PAPER_POSITIONS' = PAPER_POSITIONS ]_vars

\* C19 witness: a position entered on day 0 for a market labelled "tomorrow"
\* was not entered again, and a poll after the rollover has just resolved it.
C19_Witness ==
    /\ today = 1
    /\ last_call.op = "resolve"
    /\ \E i \in 1..Len(entry_log) :
          /\ entry_log[i] = [ticker |-> "T2", day |-> 0, label |-> "tomorrow"]
          /\ \A j \in 1..Len(entry_log) : entry_log[j].ticker = "T2" => j = i
    /\ \E k \in 1..Len(last_call.polls) :
          last_call.polls[k].ticker = "T2" /\ last_call.polls[k].outcome \in {"yes", "no"}
    /\ "T2" \notin Keys(PAPER_POSITIONS)
    /\ \E r \in 1..Len(resolved_log) : resolved_log[r].ticker = "T2"

\* ------------------------------------------------------------------------
\* Properties of the estimate and the dispersion of one Gap Result
\* ------------------------------------------------------------------------

AnalysisIn == Val(analysis_in)

\* The Gap Result of the copy of analyze_gaps in bot.py.
BotAnalysed == analysis_out # None /\ Val(analysis_out).bot_g # None

BotAnalysedG == Val(Val(analysis_out).bot_g)

\* The time-decay multiplier in percent, by series and local-standard hour.
DecayTable(series_type, h) ==
    IF series_type = "HIGH"
    THEN IF h >= 17 THEN 30 ELSE IF h >= 14 THEN 50 ELSE IF h >= 10 THEN 75 ELSE 100
    ELSE IF h >= 18 THEN 100 ELSE IF h >= 12 THEN 30 ELSE IF h >= 8 THEN 50
         ELSE IF h >= 4 THEN 75 ELSE 100

\* The running observation the inputs carry for the market's series.
InputRunning ==
    IF AnalysisIn.market.series_type = "HIGH"
    THEN AnalysisIn.nws_forecast.today_running_high
    ELSE AnalysisIn.nws_forecast.today_running_low

InputLabel ==
    IF AnalysisIn.market.event_date = Some(AnalysisIn.now.et_date) THEN "today"
    ELSE IF AnalysisIn.market.event_date = Some(AnalysisIn.now.et_date + 1) THEN "tomorrow"
    ELSE "other"

\* C22: for a today market with a running observation the time-decay
\* multiplier of the Gap Result is the table value for its series and hour,
\* in the analyze_gaps of analysis.py and in the analyze_gaps of bot.py.
C22_TimeDecayTable ==
    /\ (Analysed /\ InputLabel = "today" /\ InputRunning # None) =>
          AnalysedG.time_decay_multiplier =
              DecayTable(AnalysisIn.market.series_type, AnalysisIn.now.lst_hour)
    /\ (BotAnalysed /\ InputLabel = "today" /\ InputRunning # None) =>
          BotAnalysedG.time_decay_multiplier =
              DecayTable(AnalysisIn.market.series_type, AnalysisIn.now.lst_hour)

\* The forecast sources that report a value for the market's date and type.
InputReported ==
    LET key == FcKey(InputLabel, AnalysisIn.market.series_type)
        cf  == AnalysisIn.city_forecasts
    IN  { Val(Val(cf[src])[key]) :
            src \in { x \in {"nws", "ecmwf", "gfs", "gem", "icon", "weatherapi"} :
                        cf[x] # None /\ Val(cf[x])[key] # None } }

InputSourceCount ==
    LET key == FcKey(InputLabel, AnalysisIn.market.series_type)
        cf  == AnalysisIn.city_forecasts
    IN  Cardinality({ x \in {"nws", "ecmwf", "gfs", "gem", "icon", "weatherapi"} :
                        cf[x] # None /\ Val(cf[x])[key] # None })

InputSpread ==
    (CHOOSE hi \in InputReported : \A t \in InputReported : t <= hi)
      - (CHOOSE lo \in InputReported : \A t \in InputReported : t >= lo)

\* The dispersion the spread alone gives, in units of 1/10000 degree.
SpreadBaseline ==
    IF InputSourceCount < 2 THEN 25000
    ELSE IF InputSpread < 1 THEN 20000
    ELSE IF InputSpread > 3 THEN 40000
    ELSE 25000

\* C23: for a tomorrow market, and for a today market without a running
\* observation, at every hour the multiplier is 1.0, hourly_adjusted is false
\* and std_dev_used is the value the spread gives (2.0, 2.5 or 4.0).
C23_NoAdjustmentWithoutObservation ==
    (Analysed /\ (InputLabel = "tomorrow" \/ (InputLabel = "today" /\ InputRunning = None))) =>
        /\ AnalysedG.time_decay_multiplier = 100
        /\ ~AnalysedG.hourly_adjusted
        /\ AnalysedG.std_dev_used = SpreadBaseline
        /\ AnalysedG.std_dev_used \in {20000, 25000, 40000}

\* C23 witness: a tomorrow market analysed at 17h with an hourly forecast
\* below the running high the city has for today.
C23_Witness ==
    /\ Analysed
    /\ InputLabel = "tomorrow"
    /\ AnalysisIn.market.series_type = "HIGH"
    /\ AnalysisIn.now.lst_hour = 17
    /\ AnalysisIn.nws_forecast.today_running_high # None
    /\ AnalysisIn.city_forecasts.hourly = HourlyData(49)
    /\ AnalysedG.std_dev_used = 40000

\* C24: for a today market with a running extreme and a remaining-hours
\* forecast, the extra tightening is applied exactly when the remaining-hours
\* forecast does not exceed the running high (remaining <= observed), or does
\* not fall below the running low (remaining >= observed), equality included.
C24_HourlyCorroboration ==
    (Analysed /\ InputLabel = "today" /\ InputRunning # None
       /\ AnalysedG.hourly_remaining_extreme # None) =>
        ( AnalysedG.hourly_adjusted <=>
            IF AnalysisIn.market.series_type = "HIGH"
            THEN Val(AnalysedG.hourly_remaining_extreme) <= Val(InputRunning).max_observed
            ELSE Val(AnalysedG.hourly_remaining_extreme) >= Val(InputRunning).min_observed )

\* C25: with no time decay and no hourly tightening in effect, the
\* dispersion used is 2.5 with fewer than two reporting sources, 2.0 for a
\* spread below 1, 4.0 for a spread above 3 and 2.5 for a spread from 1 to 3.
C25_SpreadBaseline ==
    (Analysed /\ AnalysedG.time_decay_multiplier = 100 /\ ~AnalysedG.hourly_adjusted) =>
        AnalysedG.std_dev_used = SpreadBaseline

\* C25 witness: two sources one degree apart, dispersion 2.5.
C25_Witness ==
    /\ Analysed
    /\ InputSourceCount = 2
    /\ InputSpread = 1
    /\ AnalysedG.std_dev_used = 25000

\* The estimate the inputs determine: None when there is none.
InputEstimate ==
    IF InputLabel = "today" /\ InputRunning # None
    THEN IF AnalysisIn.market.series_type = "HIGH"
         THEN Some(Val(InputRunning).max_observed)
         ELSE Some(Val(InputRunning).min_observed)
    ELSE IF InputLabel = "today"
    THEN IF AnalysisIn.market.series_type = "HIGH"
         THEN AnalysisIn.nws_forecast.today_high ELSE AnalysisIn.nws_forecast.today_low
    ELSE IF AnalysisIn.market.series_type = "HIGH"
         THEN AnalysisIn.nws_forecast.tomorrow_high ELSE AnalysisIn.nws_forecast.tomorrow_low

\* C26: forecast_temp of a Gap Result is the conservative running value for
\* a today market with a running extreme, the grid forecast of the market's
\* period otherwise, whatever the hour and the hourly forecast; a market
\* without an estimate yields no Gap Result.
C26_EstimateIsObservationOrGrid ==
    (analysis_out # None /\ InputLabel # "other") =>
        /\ Analysed <=> InputEstimate # None
        /\ Analysed => AnalysedG.forecast_temp = Val(InputEstimate)

\* C26 witness: a today HIGH market at 15h with a running high of 50, a grid
\* forecast of 60 and a corroborating hourly forecast: dispersion tightened,
\* estimate 50.
C26_Witness ==
    /\ Analysed
    /\ InputLabel = "today"
    /\ AnalysisIn.market.series_type = "HIGH"
    /\ AnalysisIn.nws_forecast.today_high = Some(60)
    /\ AnalysisIn.now.lst_hour = 15
    /\ AnalysedG.hourly_adjusted
    /\ AnalysedG.time_decay_multiplier = 50
    /\ AnalysedG.forecast_temp = 50

\* ------------------------------------------------------------------------
\* Properties of the snapshots in the table of open positions
\* ------------------------------------------------------------------------

\* C21: every open position was admitted by the Quality Gate: its gap at
\* entry is at least 15 in absolute value, its entry price is from 10 to 90,
\* its spread at entry was computed and is below 8, and its consensus at
\* entry is not rejected by rule 4 for the market's bucket.
C21_OpenPositionsWereAdmitted ==
    \A i \in 1..Len(PAPER_POSITIONS) :
        LET pos == PAPER_POSITIONS[i] IN
        /\ Abs(pos.gap_at_entry) >= 15
        /\ pos.entry_price >= 10 /\ pos.entry_price <= 90
        /\ pos.spread_at_entry # None
        /\ Val(pos.spread_at_entry) < 8
        /\ pos.consensus_at_entry # None
        /\ ~Rule4Rejects(TickerMarket(pos.ticker, pos.entry_price),
                         [consensus |-> pos.consensus_at_entry])

\* C21 witness: T1 was entered in a cycle whose models were 6 degrees apart
\* (the same cycle rejected T2 by rule 4, consensus 56 against a cap of 50),
\* and T2 was entered in another cycle.
C21_Witness ==
    /\ Len(PAPER_POSITIONS) = 2
    /\ PAPER_POSITIONS[1].ticker = "T1"
    /\ PAPER_POSITIONS[1].spread_at_entry = Some(6)
    /\ PAPER_POSITIONS[1].consensus_at_entry = Some(56)
    /\ PAPER_POSITIONS[2].ticker = "T2"
    /\ PAPER_POSITIONS[2].spread_at_entry = Some(0)

\* ------------------------------------------------------------------------
\* Properties of the rolling-24-hour maximum
\* ------------------------------------------------------------------------

SetMax(S) == CHOOSE m \in S : \A x \in S : x <= m

\* The readings' values and the rolling maxima of the feed, each decoded by
\* the precision rule of the station.
DecodedReadings ==
    { Conservative(Val(obs_in).station_type, Celsius(Val(ObsFeed[k].temperature))) :
        k \in { j \in 1..Len(ObsFeed) : ObsFeed[j].temperature # None } }

DecodedRolling ==
    { Conservative(Val(obs_in).station_type, 9 * Val(ObsFeed[k].maxTemperatureLast24Hours)) :
        k \in { j \in 1..Len(ObsFeed) : ObsFeed[j].maxTemperatureLast24Hours # None } }

CelsiusFeed ==
    \A k \in 1..Len(ObsFeed) :
        ObsFeed[k].temperature # None =>
            Val(ObsFeed[k].temperature).unitCode = "wmoUnit:degC"

\* C27: for a feed with at least one reading and one rolling-24-hour
\* maximum, the conservative maximum returned by the running-high tracker is
\* the larger of the readings' maximum and the rolling maximum decoded by the
\* station's precision rule (floor for 5-minute stations, rounding for hourly
\* ones), and the scorer's actual high for the same feed is the same value.
C27_RollingMaxDecodedByStationRule ==
    (Tracked /\ DecodedReadings # {} /\ DecodedRolling # {}) =>
        /\ RunningHighOut # None
        /\ Val(RunningHighOut).max_observed = SetMax(DecodedReadings \cup DecodedRolling)
        /\ Val(RunningHighOut).max_observed >= SetMax(DecodedReadings)
        /\ CelsiusFeed =>
              /\ Val(obs_out).actual # None
              /\ Val(Val(obs_out).actual).actual_high = Some(Val(RunningHighOut).max_observed)

\* The snapshot selected for scoring the ticker in the last run.
SelectedSnapshot(ticker) ==
    res_last.signals[CHOOSE k \in 1..Len(res_last.signals) :
                        res_last.signals[k].ticker = ticker].row

\* C30: the forecast_error of every scored row that has one is the
\* forecast_temp_used of the snapshot selected for scoring that ticker (the
\* last HIGH-confidence, non-near-resolution row) minus the row's actual
\* temperature.
C30_ForecastErrorOfSelectedSnapshot ==
    CheckRan =>
        \A k \in 1..Len(res_last.rows) :
            LET r == res_last.rows[k] IN
            r.forecast_error # None =>
                /\ r.actual_temp # None
                /\ SelectedSnapshot(r.ticker).forecast_temp_used # None
                /\ Val(r.forecast_error) =
                      Val(SelectedSnapshot(r.ticker).forecast_temp_used) - Val(r.actual_temp)

\* ------------------------------------------------------------------------
\* Properties of the spread-convergence alert
\* ------------------------------------------------------------------------

\* C28: a ticker is in the alerted set only if a convergence alert naming it
\* was sent since the last daily reset, whatever window the converging cycle
\* fell in.
C28_AlertedOnlyIfAlertSent == SPREAD_ALERTED \subseteq bot_alerts

\* ------------------------------------------------------------------------
\* Liveness of the paper-trading lifecycle
\* ------------------------------------------------------------------------

\* The number of rows of a log that are about the ticker.
RowsOf(log, ticker) == Cardinality({ i \in 1..Len(log) : log[i].ticker = ticker })

\* The ticker has no open position and every position ever opened for it has
\* its resolved record in PAPER_TRADE_LOG.
ClosedAndRecorded(ticker) ==
    /\ ticker \notin Keys(PAPER_POSITIONS)
    /\ RowsOf(paper_trade_log, ticker) = RowsOf(entry_log, ticker)

\* Under the fairness of SpecLive an open position eventually leaves the
\* table.
LiveRemoved ==
    \A ticker \in LifeTickers :
        (ticker \in Keys(PAPER_POSITIONS)) ~> (ticker \notin Keys(PAPER_POSITIONS))

\* C29: under fairness (cycles keep running, the market eventually reports
\* YES or NO, the status call eventually succeeds) every open position is
\* eventually removed from the open table and recorded as resolved.
C29_OpenEventuallyResolved ==
    \A ticker \in LifeTickers :
        (ticker \in Keys(PAPER_POSITIONS)) ~> ClosedAndRecorded(ticker)

====
